---- MODULE Spec2Model ----
(***************************************************************************)
(* Model of the mind-map editor component (MindMap.tsx): the node/edge     *)
(* store, the snapshot history with its debounced capture effect, the      *)
(* connection gestures, the edit dialog, and the load/save conversion      *)
(* between the flat graph and the nested document.                         *)
(*                                                                         *)
(* Time is counted in units of 50 ms (the smallest timer in the source).   *)
(* Date.now() as a source of identifiers is modelled by msId: the value    *)
(* only changes when time passes, so two identifiers made in the same      *)
(* millisecond are equal.                                                  *)
(*                                                                         *)
(* The handlers are explored in families, each a specification over the    *)
(* same actions: SpecGraph (gestures at one instant), SpecHistory (the     *)
(* history against the clock), SpecLoad (loading files), SpecBound (a long *)
(* add/remove session), SpecPartial (a longer run of gestures ended by a   *)
(* load), SpecRoundTrip (save, empty the canvas, load the saved file),     *)
(* SpecAnchor (connecting nodes that were moved), SpecGesture (connection  *)
(* gestures by mouse or touch), SpecExport (gestures ended by an export)   *)
(* and SpecTree (building, labelling and saving a graph of three nodes).   *)
(* Spec is their union.                                                    *)
(***************************************************************************)
EXTENDS Integers, Sequences, FiniteSets, TLC

(* ------------------------------ bounds -------------------------------- *)
MaxOps == 6          \* handler invocations of one session
MaxNodes == 2        \* creations are offered while fewer nodes are live
MaxEdges == 2        \* connects are offered while fewer edges are live
MaxUndoTimers == 1   \* pending 50 ms flag-reset timers
MaxLoads == 1        \* number of load operations offered in one behaviour
MaxChain == 80       \* handler invocations of one long editing session
MaxGestures == 8     \* handler invocations of one run of gestures
MaxTreeNodes == 3    \* nodes of a graph built for saving
OverlapNodes == 3    \* nodes of a list given to the overlap pass

(* ------------------------- program constants -------------------------- *)
NODE_WIDTH == 112
NODE_HEIGHT == 56
maxHistoryLength == 50
DebounceUnits == 2       \* 100 ms
CoalesceUnits == 10      \* 500 ms
CaptureDelay == 6        \* 300 ms
UndoResetDelay == 1      \* 50 ms
LoadWaitDelay == 2       \* 100 ms
LoadFitDelay == 6        \* 300 ms
LoadLayoutDelay == 10    \* 500 ms
NoTimer == -1

Handles == {"top", "right", "bottom", "left"}
NoHandle == "none"
Today == 2             \* dates are day numbers; 0 is an empty or absent date

(* ----------------------------- helpers -------------------------------- *)
Abs(n) == IF n < 0 THEN -n ELSE n

Min(a, b) == IF a < b THEN a ELSE b

SeqFilter(s, Keep(_)) == SelectSeq(s, Keep)

Range(s) == {s[i] : i \in 1..Len(s)}

Ids(ns) == {ns[i].id : i \in 1..Len(ns)}

\* nodes.find(node => node.id === id) as a 0/1 element sequence
FindNode(ns, id) ==
  LET hits == SelectSeq(ns, LAMBDA n : n.id = id)
  IN  IF Len(hits) = 0 THEN <<>> ELSE <<hits[1]>>

\* JSON.parse(JSON.stringify(x)) of a node list: every own data field is
\* re-created, nothing is shared with the argument
CloneNode(n) ==
  [id |-> n.id, x |-> n.x, y |-> n.y,
   nd |-> [id |-> n.nd.id, title |-> n.nd.title,
           description |-> n.nd.description, priority |-> n.nd.priority,
           status |-> n.nd.status, start_date |-> n.nd.start_date,
           due_date |-> n.nd.due_date]]

CloneEdge(e) ==
  [id |-> e.id, source |-> e.source, target |-> e.target,
   sourceHandle |-> e.sourceHandle, targetHandle |-> e.targetHandle,
   label |-> e.label]

JSONCloneNodes(ns) == [i \in 1..Len(ns) |-> CloneNode(ns[i])]

JSONCloneEdges(es) == [i \in 1..Len(es) |-> CloneEdge(es[i])]

\* a node as the creation handlers build it
FreshNode(id, x, y, title) ==
  [id |-> id, x |-> x, y |-> y,
   nd |-> [id |-> id, title |-> title, description |-> "", priority |-> "",
           status |-> "", start_date |-> Today, due_date |-> Today]]

\* `edge-${Date.now()}`
StampEdgeId(t) == [p |-> 0, c |-> 0, t |-> t]

MkEdge(id, s, t, sh, th, label) ==
  [id |-> id, source |-> s, target |-> t, sourceHandle |-> sh,
   targetHandle |-> th, label |-> label]

(* ----------------------------- state ---------------------------------- *)
VARIABLES
  nodes,           \* useNodesState: sequence of nodes
  edges,           \* useEdgesState: sequence of edges
  history,         \* [nodes, edges, currentIndex] (currentIndex is 0-based)
  actionAge,       \* now - history.lastActionTime, capped at CoalesceUnits
  updateAge,       \* now - lastHistoryUpdateRef.current, capped at DebounceUnits
  isUndoing,       \* isUndoingRef.current
  captureTimer,    \* remaining units of the capture effect's timeout, or NoTimer
  undoTimers,      \* remaining units of the 50 ms flag-reset timeouts, oldest first
  msId,            \* value Date.now() yields for identifiers
  msUsed,          \* an identifier was made from the current msId
  selectedNode,    \* 0/1 element sequence holding a node
  newNodeRef,      \* newNodeRef.current as a 0/1 element sequence
  connectingHandle,      \* connectingHandleRef.current
  connectionSuccessful,  \* connectionSuccessfulRef.current
  isModalVisible,
  load,            \* the handleLoad call in flight
  loadsDone,       \* number of load operations started
  ops,             \* number of handlers that ran
  lastOp,          \* name of the last handler that ran
  pre,             \* store and history as they were before the last undo, or before
                   \* the last redo that did not follow an undo directly
  replaying,       \* isUndoingRef.current was set when the last handler started
  gap,             \* units since the last mutation, capped at Spaced; TooClose
                   \* once two mutations came within the debounce window
  saved,           \* the file handleSave wrote last, and the store it was made from
  canvases,        \* currentCanvasId and the canvasHistory list
  isLocked         \* the lock switch of the canvas

vars == <<nodes, edges, history, actionAge, updateAge, isUndoing, captureTimer,
          undoTimers, msId, msUsed, selectedNode, newNodeRef, connectingHandle,
          connectionSuccessful, isModalVisible, load, loadsDone, ops, lastOp, pre, saved,
          gap, replaying, canvases, isLocked>>

\* no second handleLoad call is in flight beside the first
NoOverlap == [timer |-> NoTimer, newNodes |-> <<>>, newEdges |-> <<>>,
              result |-> "none"]

IdleLoad == [phase |-> "idle", newNodes |-> <<>>, newEdges |-> <<>>,
             closureNodes |-> <<>>, closureEdges |-> <<>>,
             timer |-> NoTimer, result |-> "none", cause |-> "none",
             overlap |-> NoOverlap]

\* no timeout is pending
TimersDone ==
  /\ captureTimer = NoTimer
  /\ undoTimers = <<>>
  /\ load.timer = NoTimer
  /\ load.overlap.timer = NoTimer

Snapshot == [nodes |-> nodes, edges |-> edges, history |-> history,
             settled |-> TimersDone]

Init ==
  /\ nodes = <<>>
  /\ edges = <<>>
  /\ history = [nodes |-> << <<>> >>, edges |-> << <<>> >>, currentIndex |-> 0]
  /\ actionAge = 0
  /\ updateAge = 0
  /\ isUndoing = FALSE
  /\ captureTimer = CaptureDelay
  /\ undoTimers = <<>>
  /\ msId = 1
  /\ msUsed = FALSE
  /\ selectedNode = <<>>
  /\ newNodeRef = <<>>
  /\ connectingHandle = NoHandle
  /\ connectionSuccessful = FALSE
  /\ isModalVisible = FALSE
  /\ load = IdleLoad
  /\ loadsDone = 0
  /\ ops = 0
  /\ lastOp = "init"
  /\ pre = [nodes |-> <<>>, edges |-> <<>>,
            history |-> [nodes |-> << <<>> >>, edges |-> << <<>> >>,
                         currentIndex |-> 0],
            settled |-> FALSE]
  /\ replaying = FALSE
  /\ gap = DebounceUnits + 1
  /\ saved = [result |-> "none", doc |-> [mindMaps |-> [kind |-> "missing"]],
              nodes |-> <<>>, edges |-> <<>>, report |-> "none"]
  /\ canvases = [current |-> 0, list |-> <<>>]
  /\ isLocked = FALSE

(* ------------------------- history manager ---------------------------- *)
\* the updater pushing onto the whole list, the snapshots after
\* currentIndex included
CaptureUpdaterKeepTail(prev, newNodes, newEdges, age) ==
  LET lastNodes == prev.nodes[prev.currentIndex + 1]
      lastEdges == prev.edges[prev.currentIndex + 1]
      pushedN == Append(prev.nodes, JSONCloneNodes(newNodes))
      pushedE == Append(prev.edges, JSONCloneEdges(newEdges))
      boundedN == IF Len(pushedN) > maxHistoryLength THEN Tail(pushedN) ELSE pushedN
      boundedE == IF Len(pushedN) > maxHistoryLength THEN Tail(pushedE) ELSE pushedE
  IN  IF /\ Len(lastNodes) = Len(newNodes)
         /\ Len(lastEdges) = Len(newEdges)
         /\ age < CoalesceUnits
      THEN [accepted |-> FALSE, h |-> prev]
      ELSE [accepted |-> TRUE,
            h |-> [nodes |-> boundedN, edges |-> boundedE,
                   currentIndex |-> Len(boundedN) - 1]]

\* the updater when the store shares its objects with the snapshot it was
\* set from: the snapshot at currentIndex shows what the store holds now
CaptureUpdaterAliased(prev, newNodes, newEdges, age) ==
  LET newNodesHistory == [SubSeq(prev.nodes, 1, prev.currentIndex + 1)
                            EXCEPT ![prev.currentIndex + 1] = newNodes]
      newEdgesHistory == [SubSeq(prev.edges, 1, prev.currentIndex + 1)
                            EXCEPT ![prev.currentIndex + 1] = newEdges]
      pushedN == Append(newNodesHistory, JSONCloneNodes(newNodes))
      pushedE == Append(newEdgesHistory, JSONCloneEdges(newEdges))
      boundedN == IF Len(pushedN) > maxHistoryLength THEN Tail(pushedN) ELSE pushedN
      boundedE == IF Len(pushedN) > maxHistoryLength THEN Tail(pushedE) ELSE pushedE
  IN  IF /\ Len(prev.nodes[prev.currentIndex + 1]) = Len(newNodes)
         /\ Len(prev.edges[prev.currentIndex + 1]) = Len(newEdges)
         /\ age < CoalesceUnits
      THEN [accepted |-> FALSE, h |-> prev]
      ELSE [accepted |-> TRUE,
            h |-> [nodes |-> boundedN, edges |-> boundedE,
                   currentIndex |-> Len(boundedN) - 1]]

\* the updater without the shift of the oldest snapshot
CaptureUpdaterUnbounded(prev, newNodes, newEdges, age) ==
  LET newNodesHistory == SubSeq(prev.nodes, 1, prev.currentIndex + 1)
      newEdgesHistory == SubSeq(prev.edges, 1, prev.currentIndex + 1)
      lastNodes == newNodesHistory[Len(newNodesHistory)]
      lastEdges == newEdgesHistory[Len(newEdgesHistory)]
      pushedN == Append(newNodesHistory, JSONCloneNodes(newNodes))
      pushedE == Append(newEdgesHistory, JSONCloneEdges(newEdges))
  IN  IF /\ Len(lastNodes) = Len(newNodes)
         /\ Len(lastEdges) = Len(newEdges)
         /\ age < CoalesceUnits
      THEN [accepted |-> FALSE, h |-> prev]
      ELSE [accepted |-> TRUE,
            h |-> [nodes |-> pushedN, edges |-> pushedE,
                   currentIndex |-> Len(pushedN) - 1]]

\* the setHistory updater of addToHistory, for an attempt that passed the
\* guard and the time check; age is now - prev.lastActionTime
CaptureUpdater(prev, newNodes, newEdges, age) ==
  LET newNodesHistory == SubSeq(prev.nodes, 1, prev.currentIndex + 1)
      newEdgesHistory == SubSeq(prev.edges, 1, prev.currentIndex + 1)
      lastNodes == newNodesHistory[Len(newNodesHistory)]
      lastEdges == newEdgesHistory[Len(newEdgesHistory)]
      pushedN == Append(newNodesHistory, JSONCloneNodes(newNodes))
      pushedE == Append(newEdgesHistory, JSONCloneEdges(newEdges))
      boundedN == IF Len(pushedN) > maxHistoryLength THEN Tail(pushedN) ELSE pushedN
      boundedE == IF Len(pushedN) > maxHistoryLength THEN Tail(pushedE) ELSE pushedE
  IN  IF /\ Len(lastNodes) = Len(newNodes)
         /\ Len(lastEdges) = Len(newEdges)
         /\ age < CoalesceUnits
      THEN [accepted |-> FALSE, h |-> prev]
      ELSE [accepted |-> TRUE,
            h |-> [nodes |-> boundedN, edges |-> boundedE,
                   currentIndex |-> Len(boundedN) - 1]]

\* addToHistory without `if (now - lastHistoryUpdateRef.current < 100) return`
AddToHistoryNoDebounce(newNodes, newEdges) ==
  IF isUndoing
  THEN UNCHANGED <<history, actionAge, updateAge>>
  ELSE LET r == CaptureUpdater(history, newNodes, newEdges, actionAge)
       IN  /\ updateAge' = 0
           /\ history' = r.h
           /\ actionAge' = IF r.accepted THEN 0 ELSE actionAge

\* addToHistory(newNodes, newEdges)
AddToHistory(newNodes, newEdges) ==
  IF isUndoing
  THEN UNCHANGED <<history, actionAge, updateAge>>
  ELSE IF updateAge < DebounceUnits
  THEN UNCHANGED <<history, actionAge, updateAge>>
  ELSE LET r == CaptureUpdater(history, newNodes, newEdges, actionAge)
       IN  /\ updateAge' = 0
           /\ history' = r.h
           /\ actionAge' = IF r.accepted THEN 0 ELSE actionAge

\* the effect on [nodes, edges]: its cleanup clears the pending timeout, then
\* a new timeout is set unless the undo flag is up
EffectAfter(flag) == captureTimer' = IF flag THEN NoTimer ELSE CaptureDelay

EffectRerun == EffectAfter(isUndoing)

(* ------------------------------- time --------------------------------- *)
Remaining(t, d) == IF t > 0 THEN t - d ELSE t

TimerDue == \/ captureTimer = 0
            \/ (Len(undoTimers) > 0 /\ undoTimers[1] = 0)
            \/ load.timer = 0
            \/ load.overlap.timer = 0

\* the handlers that change the nodes or the edges of the store
MutationOps == {"addNode", "deleteNode", "deleteEdge", "connect", "dragToPane",
                "modalOk", "modalCancelRollback", "modalCancelSave", "load",
                "restore"}

\* gap when no two mutations came within the debounce window of each other
\* and the last one is more than the window ago
Spaced == DebounceUnits + 1

\* gap once two mutations came within the debounce window of each other
TooClose == -1

\* bookkeeping of a handler other than undo / redo
Handler(op) ==
  /\ ops' = ops + 1
  /\ lastOp' = op
  /\ gap' = IF op \notin MutationOps THEN gap
            ELSE IF gap = Spaced THEN 0 ELSE TooClose
  /\ replaying' = isUndoing
  /\ UNCHANGED <<pre, saved, canvases, isLocked>>

Background == UNCHANGED <<ops, lastOp, pre, saved, gap, replaying, canvases, isLocked>>

\* units until the next pending timeout is due; with none pending, the
\* time after which every age has reached its cap
TimeToNext ==
  LET pending == {t \in {captureTimer, load.timer, load.overlap.timer}
                          \cup Range(undoTimers) : t > 0}
  IN  IF pending = {} THEN CoalesceUnits
      ELSE CHOOSE t \in pending : \A u \in pending : t <= u

\* d units of 50 ms pass: every pending timeout comes d units closer; a
\* timeout that is due runs before more time passes
Advance(d) ==
  /\ ~TimerDue
  /\ d \in 1..TimeToNext
  /\ actionAge' = Min(actionAge + d, CoalesceUnits)
  /\ updateAge' = Min(updateAge + d, DebounceUnits)
  /\ captureTimer' = Remaining(captureTimer, d)
  /\ undoTimers' = [i \in 1..Len(undoTimers) |-> Remaining(undoTimers[i], d)]
  /\ load' = [load EXCEPT !.timer = Remaining(load.timer, d),
                          !.overlap.timer = Remaining(load.overlap.timer, d)]
  /\ msId' = IF msUsed THEN msId + 1 ELSE msId
  /\ msUsed' = FALSE
  /\ gap' = IF gap = TooClose THEN TooClose ELSE Min(gap + d, Spaced)
  /\ UNCHANGED <<ops, lastOp, pre, saved, replaying, canvases, isLocked>>
  /\ UNCHANGED <<nodes, edges, history, isUndoing, selectedNode, newNodeRef,
                 connectingHandle, connectionSuccessful, isModalVisible,
                 loadsDone>>

\* time passes in steps of one unit
Tick == Advance(1)

\* time passes up to the next timeout
Jump == Advance(TimeToNext)

\* the clock moves to another millisecond within the same 50 ms unit
MsPasses ==
  /\ msUsed
  /\ msId' = msId + 1
  /\ msUsed' = FALSE
  /\ Background
  /\ UNCHANGED <<nodes, edges, history, actionAge, updateAge, isUndoing,
                 captureTimer, undoTimers, selectedNode, newNodeRef,
                 connectingHandle, connectionSuccessful, isModalVisible,
                 load, loadsDone>>

\* the timeout set by the capture effect: addToHistory(nodes, edges)
CaptureTimerFires ==
  /\ captureTimer = 0
  /\ captureTimer' = NoTimer
  /\ AddToHistory(nodes, edges)
  /\ Background
  /\ UNCHANGED <<nodes, edges, isUndoing, undoTimers, msId, msUsed,
                 selectedNode, newNodeRef, connectingHandle,
                 connectionSuccessful, isModalVisible, load, loadsDone>>

\* setTimeout(() => { isUndoingRef.current = false }, 50)
UndoResetFires ==
  /\ Len(undoTimers) > 0
  /\ undoTimers[1] = 0
  /\ undoTimers' = Tail(undoTimers)
  /\ isUndoing' = FALSE
  /\ Background
  /\ UNCHANGED <<nodes, edges, history, actionAge, updateAge, captureTimer,
                 msId, msUsed, selectedNode, newNodeRef, connectingHandle,
                 connectionSuccessful, isModalVisible, load, loadsDone>>

(* ---------------------------- undo / redo ----------------------------- *)
\* the index handleUndo moves to
UndoIndex(prev) == prev.currentIndex - 1

\* the index handleRedo moves to
RedoIndex(prev) == prev.currentIndex + 1

\* handleUndo / handleRedo cutting the lists at the new index, as addToHistory does
MoveIndexSliced(prev, newIndex) ==
  [nodes |-> SubSeq(prev.nodes, 1, newIndex + 1),
   edges |-> SubSeq(prev.edges, 1, newIndex + 1),
   currentIndex |-> newIndex]

\* what handleUndo / handleRedo return as the next history value
MoveIndex(prev, newIndex) == [prev EXCEPT !.currentIndex = newIndex]

ApplyHistory(newIndex) ==
  /\ history' = MoveIndex(history, newIndex)
  /\ actionAge' = 0
  /\ isUndoing' = TRUE
  /\ nodes' = history.nodes[newIndex + 1]
  /\ edges' = history.edges[newIndex + 1]
  /\ undoTimers' = Append(undoTimers, UndoResetDelay)
  /\ EffectAfter(TRUE)
  /\ UNCHANGED <<updateAge, msId, msUsed, selectedNode, newNodeRef,
                 connectingHandle, connectionSuccessful, isModalVisible,
                 load, loadsDone>>

NoOp ==
  UNCHANGED <<nodes, edges, history, actionAge, updateAge, isUndoing,
              captureTimer, undoTimers, msId, msUsed, selectedNode,
              newNodeRef, connectingHandle, connectionSuccessful,
              isModalVisible, load, loadsDone>>

\* handleUndo with `if (prev.currentIndex <= 0) return prev` left out and the
\* new index kept at 0 or above
handleUndoClamped ==
  /\ ops' = ops + 1
  /\ lastOp' = "undo"
  /\ pre' = Snapshot
  /\ replaying' = isUndoing
  /\ UNCHANGED <<saved, gap, canvases, isLocked>>
  /\ ApplyHistory(IF history.currentIndex <= 0 THEN 0 ELSE UndoIndex(history))

handleUndo ==
  IF history.currentIndex <= 0
  THEN /\ Handler("undoNoOp")
       /\ NoOp
  ELSE /\ ops' = ops + 1
       /\ lastOp' = "undo"
       /\ pre' = Snapshot
       /\ replaying' = isUndoing
       /\ UNCHANGED <<saved, gap, canvases, isLocked>>
       /\ ApplyHistory(UndoIndex(history))

handleRedo ==
  IF history.currentIndex >= Len(history.nodes) - 1
  THEN /\ Handler("redoNoOp")
       /\ NoOp
  ELSE /\ ops' = ops + 1
       /\ lastOp' = IF lastOp = "undo" THEN "undoRedo" ELSE "redo"
       /\ pre' = IF lastOp = "undo" THEN pre ELSE Snapshot
       /\ replaying' = isUndoing
       /\ UNCHANGED <<saved, gap, canvases, isLocked>>
       /\ ApplyHistory(RedoIndex(history))


(* --------------------------- node creation ---------------------------- *)
Pos(px, py) == [x |-> px, y |-> py]

\* screenToFlowPosition of the window centre: wherever the view is panned to
ViewCenters == {Pos(0, 0), Pos(300, 0)}

\* outcomes of the Math.random() placement loop, relative to its base point
RandomOffsets == {Pos(3 * NODE_WIDTH, 3 * NODE_HEIGHT)}

HORIZONTAL_OFFSET == (3 * NODE_WIDTH) \div 2

VERTICAL_OFFSET == NODE_HEIGHT * 2

\* isOverlapping(pos) of handleAddNode; skip is the parent id that is ignored
\* (0 when no node is ignored); dx < NODE_WIDTH * 1.2 && dy < NODE_HEIGHT * 1.2
IsOverlapping(ns, skip, p) ==
  \E i \in 1..Len(ns) :
     /\ ns[i].id # skip
     /\ 10 * Abs(ns[i].x - p.x) < 12 * NODE_WIDTH
     /\ 10 * Abs(ns[i].y - p.y) < 12 * NODE_HEIGHT

\* the offsets tried around the spot right of the parent
ChildOffsets ==
  << Pos(0, (3 * NODE_HEIGHT) \div 2), Pos(0, -((3 * NODE_HEIGHT) \div 2)),
     Pos((3 * NODE_WIDTH) \div 2, 0), Pos(NODE_WIDTH, NODE_HEIGHT),
     Pos(NODE_WIDTH, -NODE_HEIGHT), Pos(2 * NODE_WIDTH, NODE_HEIGHT \div 2),
     Pos(2 * NODE_WIDTH, -(NODE_HEIGHT \div 2)), Pos((5 * NODE_WIDTH) \div 2, 0) >>

\* the offsets tried around the view centre
ViewCenterOffsets ==
  << Pos((3 * NODE_WIDTH) \div 2, 0), Pos(-((3 * NODE_WIDTH) \div 2), 0),
     Pos(0, (3 * NODE_HEIGHT) \div 2), Pos(0, -((3 * NODE_HEIGHT) \div 2)),
     Pos(NODE_WIDTH, NODE_HEIGHT), Pos(-NODE_WIDTH, NODE_HEIGHT),
     Pos(NODE_WIDTH, -NODE_HEIGHT), Pos(-NODE_WIDTH, -NODE_HEIGHT) >>

\* first tried position that is free; the random outcome when none is
PlaceAround(ns, skip, base, offsets, rnd) ==
  LET at(i) == Pos(base.x + offsets[i].x, base.y + offsets[i].y)
      free == {i \in 1..Len(offsets) : ~IsOverlapping(ns, skip, at(i))}
  IN  IF ~IsOverlapping(ns, skip, base) THEN base
      ELSE IF free # {} THEN at(CHOOSE i \in free : \A j \in free : i <= j)
      ELSE Pos(base.x + rnd.x, base.y + rnd.y)

\* newNodePosition of handleAddNode; parent is nodes.find(...) as a 0/1 sequence
AddNodePosition(ns, hasParentId, parent, center, rnd) ==
  IF hasParentId
  THEN IF Len(parent) = 0 THEN center
       ELSE PlaceAround(ns, parent[1].id,
                        Pos(parent[1].x + HORIZONTAL_OFFSET, parent[1].y),
                        ChildOffsets, rnd)
  ELSE IF Len(ns) > 0 THEN PlaceAround(ns, 0, center, ViewCenterOffsets, rnd)
       ELSE center

\* `node-${Date.now()}`
NewNodeId == msId

\* the edges handleAddNode appends: one from the parent when the parent is found
AddNodeEdges(parent, newNodeId) ==
  IF Len(parent) = 0 THEN <<>>
  ELSE << MkEdge(StampEdgeId(msId), parent[1].id, newNodeId, "right", "left", "") >>

\* handleAddNode(selectedNode?.id): toolbar button and context menu entries
handleAddNode(center, rnd) ==
  LET hasParentId == Len(selectedNode) > 0
      parent == IF hasParentId THEN FindNode(nodes, selectedNode[1].id) ELSE <<>>
      p == AddNodePosition(nodes, hasParentId, parent, center, rnd)
      newNode == FreshNode(NewNodeId, p.x, p.y, "new")
      added == AddNodeEdges(parent, NewNodeId)
  IN  /\ Handler("addNode")
      /\ nodes' = Append(nodes, newNode)
      /\ edges' = edges \o added
      /\ selectedNode' = <<newNode>>
      /\ isModalVisible' = (hasParentId \/ isModalVisible)
      /\ msUsed' = TRUE
      /\ EffectRerun
      /\ UNCHANGED <<history, actionAge, updateAge, isUndoing, undoTimers,
                     msId, newNodeRef, connectingHandle, connectionSuccessful,
                     load, loadsDone>>

(* ------------------------ selection and removal ----------------------- *)
\* handleNodeClick / handleContextMenu: the clicked node becomes selectedNode
\* (the canvas marks it selected through onNodesChange)
handleNodeClick(i) ==
  /\ i \in 1..Len(nodes)
  /\ Handler("nodeClick")
  /\ selectedNode' = <<nodes[i]>>
  /\ EffectRerun
  /\ UNCHANGED <<nodes, edges, history, actionAge, updateAge, isUndoing,
                 undoTimers, msId, msUsed, newNodeRef, connectingHandle,
                 connectionSuccessful, isModalVisible, load, loadsDone>>

\* onPaneClick / handlePaneContextMenu
onPaneClick ==
  /\ Handler("paneClick")
  /\ selectedNode' = <<>>
  /\ UNCHANGED <<nodes, edges, history, actionAge, updateAge, isUndoing,
                 captureTimer, undoTimers, msId, msUsed, newNodeRef,
                 connectingHandle, connectionSuccessful, isModalVisible,
                 load, loadsDone>>

\* onNodesChange with the position change that ends a drag of node i: the
\* default handler applies it to the node
onNodesChange(i, p) ==
  /\ i \in 1..Len(nodes)
  /\ Handler("moveNode")
  /\ nodes' = [nodes EXCEPT ![i].x = p.x, ![i].y = p.y]
  /\ EffectRerun
  /\ UNCHANGED <<edges, history, actionAge, updateAge, isUndoing, undoTimers,
                 msId, msUsed, selectedNode, newNodeRef, connectingHandle,
                 connectionSuccessful, isModalVisible, load, loadsDone>>

\* handleNodeDoubleClick
handleNodeDoubleClick(i) ==
  /\ i \in 1..Len(nodes)
  /\ Handler("nodeDoubleClick")
  /\ selectedNode' = <<nodes[i]>>
  /\ isModalVisible' = TRUE
  /\ UNCHANGED <<nodes, edges, history, actionAge, updateAge, isUndoing,
                 captureTimer, undoTimers, msId, msUsed, newNodeRef,
                 connectingHandle, connectionSuccessful, load, loadsDone>>

\* the canvas' Delete key on a selected node: onNodesChange removes the node,
\* onEdgesChange removes (by edge id) the edges connected to it
RemoveNodeEdges(es, id) ==
  LET hit == {es[i].id : i \in {j \in 1..Len(es) :
                                  es[j].source = id \/ es[j].target = id}}
  IN  SelectSeq(es, LAMBDA e : e.id \notin hit)

deleteNode(id) ==
  /\ id \in Ids(nodes)
  /\ Handler("deleteNode")
  /\ nodes' = SelectSeq(nodes, LAMBDA n : n.id # id)
  /\ edges' = RemoveNodeEdges(edges, id)
  /\ EffectRerun
  /\ UNCHANGED <<history, actionAge, updateAge, isUndoing, undoTimers, msId,
                 msUsed, selectedNode, newNodeRef, connectingHandle,
                 connectionSuccessful, isModalVisible, load, loadsDone>>

\* CustomEdge.handleDelete / Delete key on a selected edge
deleteEdge(i) ==
  /\ i \in 1..Len(edges)
  /\ Handler("deleteEdge")
  /\ edges' = SelectSeq(edges, LAMBDA e : e.id # edges[i].id)
  /\ EffectRerun
  /\ UNCHANGED <<nodes, history, actionAge, updateAge, isUndoing, undoTimers,
                 msId, msUsed, selectedNode, newNodeRef, connectingHandle,
                 connectionSuccessful, isModalVisible, load, loadsDone>>

\* CustomEdge.handleTextChange: the label typed into the edge's input is set
\* on every edge with the id of the edited one
handleTextChange(i, newLabel) ==
  /\ i \in 1..Len(edges)
  /\ Handler("editEdgeLabel")
  /\ edges' = [j \in 1..Len(edges) |->
                IF edges[j].id = edges[i].id THEN [edges[j] EXCEPT !.label = newLabel]
                ELSE edges[j]]
  /\ EffectRerun
  /\ UNCHANGED <<nodes, history, actionAge, updateAge, isUndoing, undoTimers,
                 msId, msUsed, selectedNode, newNodeRef, connectingHandle,
                 connectionSuccessful, isModalVisible, load, loadsDone>>


(* ------------------------- connection gestures ------------------------ *)
\* the canvas library's addEdge(edge, eds): the list is returned as it is
\* when an edge with the same source, target and handles is already in it
ConnectionExists(e, es) ==
  \E i \in 1..Len(es) :
     /\ es[i].source = e.source
     /\ es[i].target = e.target
     /\ es[i].sourceHandle = e.sourceHandle
     /\ es[i].targetHandle = e.targetHandle

addEdge(e, es) == IF ConnectionExists(e, es) THEN es ELSE Append(es, e)

\* the directions in the order Object.entries(directions) yields them
Directions == << "right", "left", "bottom", "top" >>

Dot(d, vx, vy) ==
  CASE d = "right" -> vx
    [] d = "left" -> -vx
    [] d = "bottom" -> vy
    [] d = "top" -> -vy

\* the loop with `dotProduct >= best`: the last direction of a tie stays
BestDirectionLast(vx, vy, initial) ==
  IF vx = 0 /\ vy = 0 THEN initial
  ELSE LET best == CHOOSE i \in 1..4 :
                     /\ \A j \in 1..4 : Dot(Directions[i], vx, vy) >= Dot(Directions[j], vx, vy)
                     /\ \A j \in (i + 1)..4 : Dot(Directions[j], vx, vy) < Dot(Directions[i], vx, vy)
       IN  Directions[best]

\* the loop `if (dotProduct > best) { best = dotProduct; bestDirection = direction }`
\* over the unit vector (vx, vy) / distance; with distance 0 every product is
\* NaN, no comparison succeeds and the initial value stays
BestDirection(vx, vy, initial) ==
  IF vx = 0 /\ vy = 0 THEN initial
  ELSE LET best == CHOOSE i \in 1..4 :
                     /\ \A j \in 1..4 : Dot(Directions[i], vx, vy) >= Dot(Directions[j], vx, vy)
                     /\ \A j \in 1..(i - 1) : Dot(Directions[j], vx, vy) < Dot(Directions[i], vx, vy)
       IN  Directions[best]

\* the (sourceHandle, targetHandle) onConnect gives the new edge
ConnectHandles(sourceNode, targetNode, sh, th) ==
  IF sh = NoHandle \/ th = NoHandle
  THEN LET dx == targetNode.x - sourceNode.x
           dy == targetNode.y - sourceNode.y
       IN  << BestDirection(dx, dy, "right"), BestDirection(-dx, -dy, "left") >>
  ELSE << sh, th >>

\* edges.find(...) of onConnect: compared with the handles of the gesture
ExistingEdge(es, s, t, sh, th) ==
  \E i \in 1..Len(es) :
     /\ es[i].source = s /\ es[i].target = t
     /\ es[i].sourceHandle = sh /\ es[i].targetHandle = th

\* onConnect with `[...eds, newEdge]` in place of addEdge(newEdge, eds)
ConnectResultSpread(ns, es, s, t, sh, th) ==
  LET sourceNode == FindNode(ns, s)
      targetNode == FindNode(ns, t)
  IN  IF ExistingEdge(es, s, t, sh, th) \/ Len(sourceNode) = 0 \/ Len(targetNode) = 0
      THEN es
      ELSE LET h == ConnectHandles(sourceNode[1], targetNode[1], sh, th)
           IN  Append(es, MkEdge(StampEdgeId(msId), s, t, h[1], h[2], ""))

\* the edge list onConnect leaves
ConnectResult(ns, es, s, t, sh, th) ==
  LET sourceNode == FindNode(ns, s)
      targetNode == FindNode(ns, t)
  IN  IF ExistingEdge(es, s, t, sh, th) \/ Len(sourceNode) = 0 \/ Len(targetNode) = 0
      THEN es
      ELSE LET h == ConnectHandles(sourceNode[1], targetNode[1], sh, th)
           IN  addEdge(MkEdge(StampEdgeId(msId), s, t, h[1], h[2], ""), es)

onConnect(s, t, sh, th) ==
  LET result == ConnectResult(nodes, edges, s, t, sh, th)
      made == ~ExistingEdge(edges, s, t, sh, th)
  IN  /\ s \in Ids(nodes)
      /\ t \in Ids(nodes)
      /\ Handler(IF result # edges THEN "connect" ELSE "connectExisting")
      /\ connectionSuccessful' = TRUE
      /\ edges' = result
      /\ msUsed' = (msUsed \/ made)
      /\ IF result # edges THEN EffectRerun ELSE UNCHANGED captureTimer
      /\ UNCHANGED <<nodes, history, actionAge, updateAge, isUndoing,
                     undoTimers, msId, selectedNode, newNodeRef,
                     connectingHandle, isModalVisible, load, loadsDone>>

onConnectStart(i, handleId) ==
  /\ i \in 1..Len(nodes)
  /\ Handler("connectStart")
  /\ selectedNode' = FindNode(nodes, nodes[i].id)
  /\ connectingHandle' = handleId
  /\ connectionSuccessful' = FALSE
  /\ UNCHANGED <<nodes, edges, history, actionAge, updateAge, isUndoing,
                 captureTimer, undoTimers, msId, msUsed, newNodeRef,
                 isModalVisible, load, loadsDone>>

\* the new node given the anchor the drag started at
MirrorHandleSame(h) == h

\* the anchor of the new node: the side facing the anchor the drag started at
MirrorHandle(h) ==
  CASE h = "top" -> "bottom"
    [] h = "right" -> "left"
    [] h = "bottom" -> "top"
    [] h = "left" -> "right"

\* adjustedPosition of onConnectEnd
DragPosition(n, h) ==
  CASE h = "top" -> Pos(n.x, n.y - VERTICAL_OFFSET)
    [] h = "right" -> Pos(n.x + HORIZONTAL_OFFSET, n.y)
    [] h = "bottom" -> Pos(n.x, n.y + VERTICAL_OFFSET)
    [] h = "left" -> Pos(n.x - HORIZONTAL_OFFSET, n.y)

\* the branch of onConnectEnd that makes a node and an edge
DragToPane ==
  LET src == selectedNode[1]
      p == DragPosition(src, connectingHandle)
      newNode == FreshNode(NewNodeId, p.x, p.y, "new")
      newEdge == MkEdge(StampEdgeId(msId), src.id, NewNodeId, connectingHandle,
                        MirrorHandle(connectingHandle), "")
  IN  /\ nodes' = Append(nodes, newNode)
      /\ edges' = Append(edges, newEdge)
      /\ newNodeRef' = <<newNode>>
      /\ selectedNode' = <<newNode>>
      /\ msUsed' = TRUE
      /\ EffectRerun

\* onConnectEnd with `if (connectionSuccessfulRef.current)` left out
onConnectEndUnguarded(hasPointer, targetIsPane) ==
  IF ~hasPointer
  THEN /\ Handler("connectEndIgnored")
       /\ UNCHANGED <<nodes, edges, history, actionAge, updateAge, isUndoing,
                      captureTimer, undoTimers, msId, msUsed, selectedNode,
                      newNodeRef, connectingHandle, connectionSuccessful,
                      isModalVisible, load, loadsDone>>
  ELSE /\ connectingHandle' = NoHandle
       /\ connectionSuccessful' = FALSE
       /\ IF /\ targetIsPane
             /\ Len(selectedNode) > 0
             /\ connectingHandle \in Handles
          THEN Handler("dragToPane") /\ DragToPane
          ELSE /\ Handler("connectEnd")
               /\ UNCHANGED <<nodes, edges, newNodeRef, selectedNode, msUsed,
                              captureTimer>>
       /\ UNCHANGED <<history, actionAge, updateAge, isUndoing, undoTimers, msId,
                      isModalVisible, load, loadsDone>>

\* onConnectEnd that makes a node at the place of the selected one when no
\* anchor was recorded, in place of returning
onConnectEndAnyAnchor(hasPointer, targetIsPane) ==
  IF ~hasPointer
  THEN /\ Handler("connectEndIgnored")
       /\ UNCHANGED <<nodes, edges, history, actionAge, updateAge, isUndoing,
                      captureTimer, undoTimers, msId, msUsed, selectedNode,
                      newNodeRef, connectingHandle, connectionSuccessful,
                      isModalVisible, load, loadsDone>>
  ELSE /\ connectingHandle' = NoHandle
       /\ connectionSuccessful' = FALSE
       /\ IF connectionSuccessful
          THEN /\ Handler("connectEndAfterConnect")
               /\ UNCHANGED <<nodes, edges, newNodeRef, selectedNode, msUsed,
                              captureTimer>>
          ELSE IF targetIsPane /\ Len(selectedNode) > 0
          THEN IF connectingHandle \in Handles
               THEN Handler("dragToPane") /\ DragToPane
               ELSE /\ Handler("connectEndNoAnchor")
                    /\ nodes' = Append(nodes, FreshNode(NewNodeId, selectedNode[1].x,
                                                        selectedNode[1].y, "new"))
                    /\ msUsed' = TRUE
                    /\ EffectRerun
                    /\ UNCHANGED <<edges, newNodeRef, selectedNode>>
          ELSE /\ Handler("connectEnd")
               /\ UNCHANGED <<nodes, edges, newNodeRef, selectedNode, msUsed,
                              captureTimer>>
       /\ UNCHANGED <<history, actionAge, updateAge, isUndoing, undoTimers, msId,
                      isModalVisible, load, loadsDone>>

\* onConnectEnd; hasPointer: the event has clientX and clientY (a mouse
\* event; a touch event has neither and the handler returns at once)
onConnectEnd(hasPointer, targetIsPane) ==
  IF ~hasPointer
  THEN /\ Handler("connectEndIgnored")
       /\ UNCHANGED <<nodes, edges, history, actionAge, updateAge, isUndoing,
                      captureTimer, undoTimers, msId, msUsed, selectedNode,
                      newNodeRef, connectingHandle, connectionSuccessful,
                      isModalVisible, load, loadsDone>>
  ELSE /\ connectingHandle' = NoHandle
       /\ connectionSuccessful' = FALSE
       /\ IF connectionSuccessful
          THEN /\ Handler("connectEndAfterConnect")
               /\ UNCHANGED <<nodes, edges, newNodeRef, selectedNode, msUsed,
                              captureTimer>>
          ELSE IF targetIsPane /\ Len(selectedNode) > 0
          THEN IF connectingHandle \in Handles
               THEN Handler("dragToPane") /\ DragToPane
               ELSE /\ Handler("connectEndNoAnchor")
                    /\ UNCHANGED <<nodes, edges, newNodeRef, selectedNode, msUsed,
                                   captureTimer>>
          ELSE /\ Handler("connectEnd")
               /\ UNCHANGED <<nodes, edges, newNodeRef, selectedNode, msUsed,
                              captureTimer>>
       /\ UNCHANGED <<history, actionAge, updateAge, isUndoing, undoTimers, msId,
                      isModalVisible, load, loadsDone>>

(* ----------------------------- edit dialog ---------------------------- *)
\* what the form can hold when the dialog is closed
FormValues ==
  { [title |-> "T", start_date |-> 1, due_date |-> 2],
    [title |-> "T", start_date |-> 2, due_date |-> 1] }

\* the due_date rule of the form together with the required title
FormValid(v) ==
  /\ v.title # ""
  /\ (v.start_date = 0 \/ v.due_date = 0 \/ v.start_date <= v.due_date)

\* nodes.map(...) with `if (node.id === selectedNode.id)` left out
UpdateNodesAll(ns, id, v) ==
  [i \in 1..Len(ns) |->
     [ns[i] EXCEPT !.nd.title = v.title,
                   !.nd.start_date = v.start_date,
                   !.nd.due_date = v.due_date]]

\* nodes.map(...) of handleModalOk and of the auto-save branch
UpdateNodes(ns, id, v) ==
  [i \in 1..Len(ns) |->
     IF ns[i].id = id
     THEN [ns[i] EXCEPT !.nd.title = v.title,
                        !.nd.start_date = v.start_date,
                        !.nd.due_date = v.due_date]
     ELSE ns[i]]

handleModalOk(v) ==
  /\ isModalVisible
  /\ Handler(IF FormValid(v) THEN "modalOk" ELSE "modalOkInvalid")
  /\ IF FormValid(v)
     THEN /\ isModalVisible' = FALSE
          /\ IF Len(selectedNode) > 0
             THEN nodes' = UpdateNodes(nodes, selectedNode[1].id, v) /\ EffectRerun
             ELSE UNCHANGED <<nodes, captureTimer>>
     ELSE UNCHANGED <<nodes, captureTimer, isModalVisible>>
  /\ UNCHANGED <<edges, history, actionAge, updateAge, isUndoing, undoTimers,
                 msId, msUsed, selectedNode, newNodeRef, connectingHandle,
                 connectionSuccessful, load, loadsDone>>

\* The two filters of handleModalCancel read newNodeRef.current when the
\* updater runs; the handler clears the ref right after queueing them.  An
\* updater that the framework runs at once still sees the node, one that it
\* runs with the next render sees null and keeps everything.  The node
\* updater is queued first, so the edge updater never runs earlier than it.
CancelOutcomes == { <<TRUE, TRUE>>, <<TRUE, FALSE>>, <<FALSE, FALSE>> }

CancelNodes(ns, ref, seesRef) ==
  IF seesRef THEN SelectSeq(ns, LAMBDA n : n.id # ref.id) ELSE ns

CancelEdges(es, ref, seesRef) ==
  IF seesRef THEN SelectSeq(es, LAMBDA e : e.source # ref.id /\ e.target # ref.id)
  ELSE es

handleModalCancel(outcome, autoSave, v) ==
  /\ isModalVisible
  /\ Handler(IF Len(newNodeRef) > 0
             THEN (IF outcome[1] THEN "modalCancelRollback" ELSE "modalCancel")
             ELSE IF Len(selectedNode) > 0 /\ autoSave THEN "modalCancelSave"
             ELSE "modalCancel")
  /\ isModalVisible' = FALSE
  /\ newNodeRef' = <<>>
  /\ IF Len(newNodeRef) > 0
     THEN /\ nodes' = CancelNodes(nodes, newNodeRef[1], outcome[1])
          /\ edges' = CancelEdges(edges, newNodeRef[1], outcome[2])
          /\ EffectRerun
     ELSE IF Len(selectedNode) > 0 /\ autoSave
     THEN /\ nodes' = UpdateNodes(nodes, selectedNode[1].id, v)
          /\ EffectRerun
          /\ UNCHANGED edges
     ELSE UNCHANGED <<nodes, edges, captureTimer>>
  /\ UNCHANGED <<history, actionAge, updateAge, isUndoing, undoTimers, msId,
                 msUsed, selectedNode, connectingHandle, connectionSuccessful,
                 load, loadsDone>>


(* ------------------------------ documents ----------------------------- *)
\* JSON values as tagged records: an absent key, a value that is not an
\* array, null, an array, an object
Missing == [kind |-> "missing"]

Scalar == [kind |-> "scalar"]

Null == [kind |-> "null"]

Arr(items) == [kind |-> "array", items |-> items]

\* a MindMapNode of a document; id 0, date 0 and "" stand for an absent key
TreeNode(id, title, start, due, label, children) ==
  [kind |-> "obj", id |-> id, title |-> title, description |-> "",
   priority |-> "", status |-> "", start_date |-> start, due_date |-> due,
   edgeLabel |-> label, children |-> children]

Theme(id, title, children) ==
  [kind |-> "obj", id |-> id, title |-> title, children |-> children]

Document(mindMaps) == [mindMaps |-> mindMaps]

Leaf(id, title) == TreeNode(id, title, 1, 2, "", Arr(<<>>))

\* the files offered to the load dialog
Docs ==
  { Document(Missing),
    Document(Scalar),
    Document(Arr(<<>>)),
    Document(Arr(<< Null >>)),
    Document(Arr(<< Theme(11, "theme", Missing) >>)),
    Document(Arr(<< Theme(11, "theme",
        Arr(<< TreeNode(11, "a", 1, 2, "", Arr(<< TreeNode(12, "b", 0, 0, "l", Missing) >>)) >>)) >>)),
    Document(Arr(<< Theme(11, "theme", Arr(<< Leaf(11, "a"), Leaf(11, "b") >>)) >>)),
    Document(Arr(<< Theme(11, "theme", Arr(<< Leaf(0, "a"), Null >>)) >>)) }

\* loadFromFile without its check of the structure: the parsed data as it is;
\* a mindMaps that is a non-empty string has a length and a first element
loadFromFileUnchecked(doc) ==
  [kind |-> "obj",
   mindMaps |-> IF doc.mindMaps.kind = "array" THEN doc.mindMaps.items
                ELSE IF doc.mindMaps.kind = "scalar" THEN << Scalar >>
                ELSE <<>>]

\* loadFromFile: the parsed data, or null when mindMaps is missing or not an array
loadFromFile(doc) ==
  IF doc.mindMaps.kind # "array" THEN Null
  ELSE [kind |-> "obj", mindMaps |-> doc.mindMaps.items]

\* `node-${Date.now()}-${Math.random()...}`: a fresh string for each draw; k
\* counts the draws of one walk, the two draws of one node differ
RandomNodeId(k) == 1000 + k

RandomDataId(k) == 2000 + k

\* `edge-${parentId}-${newNode.id}-${Date.now()}`
LoadEdgeId(parentId, childId, t) == [p |-> parentId, c |-> childId, t |-> t]

\* id of the node processNode makes for a tree node: the id of the document
\* when it has one
ImportNodeId(node, k) == IF node.id # 0 THEN node.id ELSE RandomNodeId(k)

OrToday(d) == IF d = 0 THEN Today ELSE d

\* reading the keys of a value that is no object gives undefined for each
AsTreeNode(v) == IF v.kind = "obj" THEN v ELSE TreeNode(0, "", 0, 0, "", Missing)

AsTheme(v) == IF v.kind = "obj" THEN v ELSE Theme(0, "", Missing)

ImportNode(node, k, p) ==
  [id |-> ImportNodeId(node, k), x |-> p.x, y |-> p.y,
   nd |-> [id |-> IF node.id # 0 THEN node.id ELSE RandomDataId(k),
           title |-> node.title, description |-> node.description,
           priority |-> node.priority, status |-> node.status,
           start_date |-> OrToday(node.start_date),
           due_date |-> OrToday(node.due_date)]]

RECURSIVE processNode(_, _, _, _, _)
RECURSIVE processChildren(_, _, _, _, _, _)

\* processNode(node, parentId, position): acc holds newNodes, newEdges and
\* whether an exception has been raised; parentId 0 is undefined
processNode(node, parentId, p, t, acc) ==
  IF acc.threw THEN acc
  ELSE IF node.kind = "null" THEN [acc EXCEPT !.threw = TRUE]
  ELSE LET newNode == ImportNode(AsTreeNode(node), Len(acc.nodes) + 1, p)
           pushed == [acc EXCEPT !.nodes = Append(@, newNode)]
           linked == IF parentId = 0 THEN pushed
                     ELSE [pushed EXCEPT !.edges =
                             Append(@, MkEdge(LoadEdgeId(parentId, newNode.id, t),
                                              parentId, newNode.id, "right",
                                              "left", AsTreeNode(node).edgeLabel))]
       IN  IF AsTreeNode(node).children.kind = "array"
           THEN processChildren(AsTreeNode(node).children.items, 1, newNode, p, t, linked)
           ELSE linked

\* node.children.forEach((child, index) => processNode(child, newNode.id, ...))
processChildren(items, i, parent, p, t, acc) ==
  IF i > Len(items) THEN acc
  ELSE LET childPosition ==
             Pos(p.x + HORIZONTAL_OFFSET,
                 p.y + (3 * NODE_HEIGHT * (2 * (i - 1) - Len(items))) \div 4)
       IN  processChildren(items, i + 1, parent, p, t,
                           processNode(items[i], parent.id, childPosition, t, acc))

RECURSIVE processRoots(_, _, _, _)
\* theme.children.forEach((child, index) => processNode(child, undefined, ...))
processRoots(items, i, t, acc) ==
  IF i > Len(items) THEN acc
  ELSE processRoots(items, i + 1, t,
                    processNode(items[i], 0, Pos(100, 100 + (i - 1) * NODE_HEIGHT * 2),
                                t, acc))

\* the node made from a theme that has no children
ThemeNode(theme) ==
  [id |-> IF theme.id # 0 THEN theme.id ELSE RandomNodeId(1), x |-> 100, y |-> 100,
   nd |-> [id |-> IF theme.id # 0 THEN theme.id ELSE RandomNodeId(1),
           title |-> IF theme.title # "" THEN theme.title ELSE "mind map",
           description |-> "", priority |-> "",
           status |-> "", start_date |-> Today, due_date |-> Today]]

\* the synchronous part of handleLoad after the store was cleared: newNodes
\* and newEdges built from data.mindMaps[0], or an exception
BuildGraph(mindMaps, t) ==
  LET first == mindMaps[1]
      theme == AsTheme(first)
      empty == [nodes |-> <<>>, edges |-> <<>>, threw |-> FALSE]
  IN  IF first.kind = "null" THEN [empty EXCEPT !.threw = TRUE]
      ELSE IF theme.children.kind = "array" /\ Len(theme.children.items) > 0
      THEN processRoots(theme.children.items, 1, t, empty)
      ELSE [empty EXCEPT !.nodes = << ThemeNode(theme) >>]


(* ------------------------------- layout ------------------------------- *)
\* length of the longest chain of edges ending at node id, cut at depth d
RECURSIVE RankOf(_, _, _)
RankOf(es, id, d) ==
  LET parents == {es[i].source : i \in {j \in 1..Len(es) : es[j].target = id /\ es[j].source # id}}
  IN  IF d = 0 \/ parents = {} THEN 0
      ELSE LET ranks == {RankOf(es, q, d - 1) : q \in parents}
           IN  1 + (CHOOSE r \in ranks : \A r2 \in ranks : r2 <= r)

\* centre the layout library assigns to the i-th node (left-to-right ranks,
\* one row per node), before the handler's own corrections
DagreCenter(ns, es, i) ==
  Pos(50 + (NODE_WIDTH + 20) \div 2 + RankOf(es, ns[i].id, Len(ns)) * (NODE_WIDTH + 20 + 150),
      50 + (NODE_HEIGHT + 10) \div 2 + (i - 1) * (NODE_HEIGHT + 10 + 120))

\* layoutedNodes made as new nodes: `...node` left out of the returned object
LayoutedNodesAnew(ns, es) ==
  [i \in 1..Len(ns) |->
     LET c == DagreCenter(ns, es, i)
     IN  FreshNode(ns[i].id, c.x - NODE_WIDTH \div 2, c.y - NODE_HEIGHT \div 2, "new")]

\* layoutedNodes of handleAutoLayout
LayoutedNodes(ns, es) ==
  [i \in 1..Len(ns) |->
     LET c == DagreCenter(ns, es, i)
         sourceEdges == Len(SelectSeq(es, LAMBDA e : e.source = ns[i].id))
         targetEdges == Len(SelectSeq(es, LAMBDA e : e.target = ns[i].id))
         y1 == IF sourceEdges > 2 THEN 15 ELSE 0
         y2 == IF targetEdges > 2 THEN -15 ELSE y1
         yOffset == IF sourceEdges > 1 /\ targetEdges > 1
                    THEN (IF sourceEdges > targetEdges THEN 20 ELSE -20)
                    ELSE y2
     IN  [ns[i] EXCEPT !.x = c.x - NODE_WIDTH \div 2,
                       !.y = c.y - NODE_HEIGHT \div 2 + yOffset]]

maxIterations == 3

\* resolveOverlaps works with halves of distances.  Where the pass is applied
\* to a list of its own, positions are counted in 1/Sub px, so that each of
\* the halves it can take in a row (one per pair and round) is a whole number.
Sub == 2 ^ (maxIterations * ((OverlapNodes * (OverlapNodes - 1)) \div 2))

\* nodePositions of resolveOverlaps: a Map from node id to position; of two
\* nodes with one id the later one sets the entry
NodePositions(ns) ==
  [id \in Ids(ns) |->
     LET last == CHOOSE i \in 1..Len(ns) :
                   ns[i].id = id /\ \A k \in 1..Len(ns) : ns[k].id = id => k <= i
     IN  Pos(ns[last].x, ns[last].y)]

\* one displacement of a pair: `half` is what adjustedNodes[i] received and
\* what adjustedNodes[j] received negated; (ax, ay) and (bx, by) are the
\* positions adjustedNodes[i] and adjustedNodes[j] held when it was made
Push(i, j, axis, half, a, b) ==
  [i |-> i, j |-> j, axis |-> axis, half |-> half,
   ax |-> a.x, ay |-> a.y, bx |-> b.x, by |-> b.y]

\* the body of `for (let j = i + 1; ...)`: nodeA and posA were read before
\* the loop, nodeB and posB are read in each round.  st.pushes records the
\* displacements; the code keeps no such list.
RECURSIVE OverlapInner(_, _, _, _, _)
OverlapInner(st, i, j, nodeA, posA) ==
  IF j > Len(st.adj) THEN st
  ELSE
    LET nodeB == st.adj[j]
        posB == st.pos[nodeB.id]
        overlapX == Abs(posA.x - posB.x) < NODE_WIDTH * Sub - 5 * Sub
        overlapY == Abs(posA.y - posB.y) < NODE_HEIGHT * Sub - 5 * Sub
        moveX == (NODE_WIDTH * Sub + 10 * Sub) - Abs(posA.x - posB.x)
        moveY == (NODE_HEIGHT * Sub + 10 * Sub) - Abs(posA.y - posB.y)
        dirX == IF posA.x < posB.x THEN -1 ELSE 1
        dirY == IF posA.y < posB.y THEN -1 ELSE 1
        hx == dirX * (moveX \div 2)
        hy == dirY * (moveY \div 2)
        pushedX ==
          [adj |-> [st.adj EXCEPT ![i] = [nodeA EXCEPT !.x = nodeA.x + hx],
                                  ![j] = [nodeB EXCEPT !.x = nodeB.x - hx]],
           pos |-> [st.pos EXCEPT ![nodeA.id] = [posA EXCEPT !.x = posA.x + hx],
                                  ![nodeB.id] = [posB EXCEPT !.x = posB.x - hx]],
           hasOverlap |-> TRUE,
           exact |-> st.exact /\ moveX % 2 = 0,
           pushes |-> Append(st.pushes, Push(i, j, "x", hx, st.adj[i], st.adj[j]))]
        pushedY ==
          [adj |-> [st.adj EXCEPT ![i] = [nodeA EXCEPT !.y = nodeA.y + hy],
                                  ![j] = [nodeB EXCEPT !.y = nodeB.y - hy]],
           pos |-> [st.pos EXCEPT ![nodeA.id] = [posA EXCEPT !.y = posA.y + hy],
                                  ![nodeB.id] = [posB EXCEPT !.y = posB.y - hy]],
           hasOverlap |-> TRUE,
           exact |-> st.exact /\ moveY % 2 = 0,
           pushes |-> Append(st.pushes, Push(i, j, "y", hy, st.adj[i], st.adj[j]))]
    IN  IF overlapX /\ overlapY
        THEN OverlapInner(IF moveX < moveY THEN pushedX ELSE pushedY,
                          i, j + 1, nodeA, posA)
        ELSE OverlapInner(st, i, j + 1, nodeA, posA)

\* `for (let i = 0; ...)`
RECURSIVE OverlapOuter(_, _)
OverlapOuter(st, i) ==
  IF i > Len(st.adj) THEN st
  ELSE OverlapOuter(OverlapInner(st, i, i + 1, st.adj[i], st.pos[st.adj[i].id]),
                    i + 1)

\* `while (hasOverlap && iterations < maxIterations)`
RECURSIVE OverlapRounds(_, _)
OverlapRounds(st, iterations) ==
  IF st.hasOverlap /\ iterations < maxIterations
  THEN OverlapRounds(OverlapOuter([st EXCEPT !.hasOverlap = FALSE], 1),
                     iterations + 1)
  ELSE st

\* the pass on a list of nodes, with the record of what it did
OverlapPass(ns) ==
  OverlapRounds([adj |-> ns, pos |-> NodePositions(ns), hasOverlap |-> TRUE,
                 exact |-> TRUE, pushes |-> <<>>], 0)

\* resolveOverlaps of handleAutoLayout
resolveOverlaps(ns) == OverlapPass(ns).adj

\* the pass applied to the list in `nodes`
ApplyResolveOverlaps ==
  /\ Handler("resolveOverlaps")
  /\ nodes' = resolveOverlaps(nodes)
  /\ UNCHANGED <<edges, history, actionAge, updateAge, isUndoing, captureTimer,
                 undoTimers, msId, msUsed, selectedNode, newNodeRef,
                 connectingHandle, connectionSuccessful, isModalVisible, load,
                 loadsDone>>

(* -------------------------------- load -------------------------------- *)
\* handleLoad up to its first suspension, with the file the dialog returned
handleLoad(doc) ==
  LET data == loadFromFile(doc)
      usable == data.kind = "obj" /\ Len(data.mindMaps) > 0
      built == BuildGraph(data.mindMaps, msId)
  IN  /\ load.phase = "idle"
      /\ Handler("load")
      /\ loadsDone' = loadsDone + 1
      /\ IF ~usable
         THEN /\ load' = [IdleLoad EXCEPT !.result = "failed",
                            !.cause = IF data.kind = "obj" THEN "empty" ELSE "malformed"]
              /\ UNCHANGED <<nodes, edges, captureTimer, msUsed>>
         ELSE /\ nodes' = <<>>
              /\ edges' = <<>>
              /\ EffectRerun
              /\ msUsed' = TRUE
              /\ load' = IF built.threw
                         THEN [IdleLoad EXCEPT !.result = "failed", !.cause = "threw"]
                         ELSE [phase |-> "waiting", newNodes |-> built.nodes,
                               newEdges |-> built.edges, closureNodes |-> nodes,
                               closureEdges |-> edges, timer |-> LoadWaitDelay,
                               result |-> "none", cause |-> "none",
                               overlap |-> NoOverlap]
      /\ UNCHANGED <<history, actionAge, updateAge, isUndoing, undoTimers, msId,
                     selectedNode, newNodeRef, connectingHandle,
                     connectionSuccessful, isModalVisible>>

\* the continuation after the 100 ms wait with `setNodes(nds => [...nds, ...newNodes])`
\* in place of `setNodes(() => [...newNodes])`: a merge
LoadApplyMerged ==
  /\ load.phase = "waiting"
  /\ load.timer = 0
  /\ nodes' = nodes \o load.newNodes
  /\ edges' = edges \o load.newEdges
  /\ AddToHistory(load.newNodes, load.newEdges)
  /\ EffectRerun
  /\ load' = [load EXCEPT !.phase = "fit", !.timer = LoadFitDelay, !.result = "ok"]
  /\ Background
  /\ UNCHANGED <<isUndoing, undoTimers, msId, msUsed, selectedNode, newNodeRef,
                 connectingHandle, connectionSuccessful, isModalVisible, loadsDone>>

\* after the 100 ms wait: full replace, direct capture, success message
LoadApply ==
  /\ load.phase = "waiting"
  /\ load.timer = 0
  /\ nodes' = load.newNodes
  /\ edges' = load.newEdges
  /\ AddToHistory(load.newNodes, load.newEdges)
  /\ EffectRerun
  /\ load' = [load EXCEPT !.phase = "fit", !.timer = LoadFitDelay, !.result = "ok"]
  /\ Background
  /\ UNCHANGED <<isUndoing, undoTimers, msId, msUsed, selectedNode, newNodeRef,
                 connectingHandle, connectionSuccessful, isModalVisible, loadsDone>>

\* the 300 ms timeout: fitView, then the 500 ms timeout is set
LoadFitView ==
  /\ load.phase = "fit"
  /\ load.timer = 0
  /\ load' = [load EXCEPT !.phase = "layout", !.timer = LoadLayoutDelay]
  /\ Background
  /\ UNCHANGED <<nodes, edges, history, actionAge, updateAge, isUndoing,
                 captureTimer, undoTimers, msId, msUsed, selectedNode,
                 newNodeRef, connectingHandle, connectionSuccessful,
                 isModalVisible, loadsDone>>

\* the 500 ms timeout: handleAutoLayout() as handleLoad's render closed over it
LoadLayout ==
  /\ load.phase = "layout"
  /\ load.timer = 0
  /\ load' = [load EXCEPT !.phase = "idle", !.timer = NoTimer]
  /\ IF Len(load.newNodes) > 0 /\ Len(load.closureNodes) > 0
     THEN /\ nodes' = LayoutedNodes(load.closureNodes, load.closureEdges)
          /\ EffectRerun
     ELSE UNCHANGED <<nodes, captureTimer>>
  /\ Background
  /\ UNCHANGED <<edges, history, actionAge, updateAge, isUndoing, undoTimers,
                 msId, msUsed, selectedNode, newNodeRef, connectingHandle,
                 connectionSuccessful, isModalVisible, loadsDone>>

\* handleLoad called again while an earlier call waits its 100 ms, on a
\* canvas that was empty before both: the 300 ms and 500 ms timeouts of this
\* call find no nodes in its closure and change nothing
handleLoadAgain(doc) ==
  LET data == loadFromFile(doc)
      usable == data.kind = "obj" /\ Len(data.mindMaps) > 0
      built == BuildGraph(data.mindMaps, msId)
  IN  /\ load.phase = "waiting"
      /\ load.overlap.result = "none"
      /\ load.overlap.timer = NoTimer
      /\ Len(nodes) = 0
      /\ Handler("loadAgain")
      /\ loadsDone' = loadsDone + 1
      /\ IF ~usable
         THEN /\ load' = [load EXCEPT !.overlap.result = "failed"]
              /\ UNCHANGED <<nodes, edges, captureTimer, msUsed>>
         ELSE /\ nodes' = <<>>
              /\ edges' = <<>>
              /\ EffectRerun
              /\ msUsed' = TRUE
              /\ load' = IF built.threw
                         THEN [load EXCEPT !.overlap.result = "failed"]
                         ELSE [load EXCEPT !.overlap =
                                 [timer |-> LoadWaitDelay, newNodes |-> built.nodes,
                                  newEdges |-> built.edges, result |-> "none"]]
      /\ UNCHANGED <<history, actionAge, updateAge, isUndoing, undoTimers, msId,
                     selectedNode, newNodeRef, connectingHandle,
                     connectionSuccessful, isModalVisible>>

\* the continuation of the second call after its 100 ms wait
LoadApplyAgain ==
  /\ load.overlap.timer = 0
  /\ nodes' = load.overlap.newNodes
  /\ edges' = load.overlap.newEdges
  /\ AddToHistory(load.overlap.newNodes, load.overlap.newEdges)
  /\ EffectRerun
  /\ load' = [load EXCEPT !.overlap.timer = NoTimer, !.overlap.result = "ok"]
  /\ Background
  /\ UNCHANGED <<isUndoing, undoTimers, msId, msUsed, selectedNode, newNodeRef,
                 connectingHandle, connectionSuccessful, isModalVisible, loadsDone>>

(* -------------------------------- save -------------------------------- *)
\* currentCanvasId and currentCanvasName
CanvasId == 900

CanvasName == "canvas"

\* what JSON.stringify meets when an object contains itself
Circular == [kind |-> "circular"]

\* nodeMap.get(id): the entry the last node with this id has set
NodeMapGet(ns, id) ==
  LET hits == SelectSeq(ns, LAMBDA n : n.id = id)
  IN  hits[Len(hits)]

\* a child pushed only into the children of its first parent
ChildIdsOnce(ns, es, id) ==
  LET first(t) == CHOOSE i \in 1..Len(es) :
                    /\ es[i].target = t /\ es[i].source \in Ids(ns)
                    /\ \A j \in 1..(i - 1) : ~(es[j].target = t /\ es[j].source \in Ids(ns))
      own == SelectSeq(es, LAMBDA e : e.source = id /\ e.target \in Ids(ns)
                                      /\ es[first(e.target)].source = id)
  IN  [i \in 1..Len(own) |-> own[i].target]

\* ids pushed into the children of nodeMap.get(id), in edge order
ChildIds(ns, es, id) ==
  LET own == SelectSeq(es, LAMBDA e : e.source = id /\ e.target \in Ids(ns))
  IN  [i \in 1..Len(own) |-> own[i].target]

\* edgeLabel the edges.forEach leaves on nodeMap.get(id); "" is an absent key
EdgeLabelOf(ns, es, id) ==
  LET labelled == SelectSeq(es, LAMBDA e : e.target = id /\ e.source \in Ids(ns)
                                           /\ e.label # "")
  IN  IF Len(labelled) = 0 THEN "" ELSE labelled[Len(labelled)].label

\* the MindMapNode of nodeMap as JSON.stringify writes it; d bounds the
\* depth, which only a node that contains itself exceeds
RECURSIVE ExportNode(_, _, _, _)
ExportNode(ns, es, id, d) ==
  IF d = 0 THEN Circular
  ELSE LET n == NodeMapGet(ns, id)
           kids == ChildIds(ns, es, id)
           trees == [i \in 1..Len(kids) |-> ExportNode(ns, es, kids[i], d - 1)]
       IN  IF \E i \in 1..Len(kids) : trees[i].kind = "circular" THEN Circular
           ELSE [kind |-> "obj", id |-> n.id, title |-> n.nd.title,
                 description |-> n.nd.description, priority |-> n.nd.priority,
                 status |-> n.nd.status, start_date |-> n.nd.start_date,
                 due_date |-> n.nd.due_date, edgeLabel |-> EdgeLabelOf(ns, es, id),
                 children |-> Arr(trees)]

\* rootNodes: one entry per node of the store that no edge targets
RootNodes(ns, es) ==
  LET targetIds == {es[i].target : i \in 1..Len(es)}
      roots == SelectSeq(ns, LAMBDA n : n.id \notin targetIds)
  IN  [i \in 1..Len(roots) |-> ExportNode(ns, es, roots[i].id, Len(ns) + 1)]

\* mindMapData of handleSave as saveToFile serialises it, or Circular when
\* JSON.stringify throws
mindMapData(ns, es) ==
  LET roots == RootNodes(ns, es)
  IN  IF \E i \in 1..Len(roots) : roots[i].kind = "circular" THEN Circular
      ELSE Document(Arr(<< Theme(CanvasId, CanvasName, Arr(roots)) >>))

NothingSaved == [result |-> "none", doc |-> Document(Missing),
                 nodes |-> <<>>, edges |-> <<>>, report |-> "none"]

\* saveToFile: false when JSON.stringify throws or the file cannot be written
saveToFile(doc, written) == written /\ doc # Circular

\* saveToMarkdown: false when convertToMarkdown never ends or the file
\* cannot be written
saveToMarkdown(doc, written) == written /\ doc # Circular

\* the report with the message of failure whenever one of the two fails
SaveReportStrict(jsonSuccess, mdSuccess) ==
  IF jsonSuccess /\ mdSuccess THEN "both" ELSE "failed"

\* the message handleSave shows
SaveReport(jsonSuccess, mdSuccess) ==
  IF jsonSuccess /\ mdSuccess THEN "both"
  ELSE IF jsonSuccess THEN "json"
  ELSE IF mdSuccess THEN "markdown"
  ELSE "failed"

\* handleSave; written and mdWritten tell whether the JSON file and the
\* Markdown file could be written
handleSave(written, mdWritten) ==
  LET doc == mindMapData(nodes, edges)
      jsonSuccess == saveToFile(doc, written)
      mdSuccess == saveToMarkdown(doc, mdWritten)
  IN  /\ ops' = ops + 1
      /\ lastOp' = "save"
      /\ replaying' = isUndoing
      /\ UNCHANGED <<gap, canvases, isLocked>>
      /\ saved' = IF jsonSuccess
                  THEN [result |-> "ok", doc |-> doc, nodes |-> nodes, edges |-> edges,
                        report |-> SaveReport(jsonSuccess, mdSuccess)]
                  ELSE [saved EXCEPT !.result = "failed",
                                     !.report = SaveReport(jsonSuccess, mdSuccess)]
      /\ UNCHANGED <<nodes, edges, history, actionAge, updateAge, isUndoing,
                     captureTimer, undoTimers, msId, msUsed, selectedNode,
                     newNodeRef, connectingHandle, connectionSuccessful,
                     isModalVisible, load, loadsDone, pre>>

\* the keys of getMindMapData's nodeMap in the order nodeMap.forEach visits
\* them: an id keeps the place of its first node
RECURSIVE NodeMapKeys(_)
NodeMapKeys(ns) ==
  IF ns = <<>> THEN <<>>
  ELSE LET front == SubSeq(ns, 1, Len(ns) - 1)
           last == ns[Len(ns)]
       IN  IF last.id \in Ids(front) THEN NodeMapKeys(front)
           ELSE Append(NodeMapKeys(front), last.id)

\* the MindMapNode of getMindMapData's nodeMap (`...node.data.nodeData`) as
\* convertToMarkdown walks it; d bounds the depth as for ExportNode
RECURSIVE ExportDataNode(_, _, _, _)
ExportDataNode(ns, es, id, d) ==
  IF d = 0 THEN Circular
  ELSE LET n == NodeMapGet(ns, id)
           kids == ChildIds(ns, es, id)
           trees == [i \in 1..Len(kids) |-> ExportDataNode(ns, es, kids[i], d - 1)]
       IN  IF \E i \in 1..Len(kids) : trees[i].kind = "circular" THEN Circular
           ELSE [kind |-> "obj", id |-> n.nd.id, title |-> n.nd.title,
                 description |-> n.nd.description, priority |-> n.nd.priority,
                 status |-> n.nd.status, start_date |-> n.nd.start_date,
                 due_date |-> n.nd.due_date, edgeLabel |-> EdgeLabelOf(ns, es, id),
                 children |-> Arr(trees)]

\* getMindMapData: the roots are the nodes that no edge between two nodes of
\* the store targets; Circular when the walk of convertToMarkdown never ends
getMindMapData(ns, es) ==
  LET childNodeIds == {es[i].target : i \in {j \in 1..Len(es) :
                           es[j].source \in Ids(ns) /\ es[j].target \in Ids(ns)}}
      rootIds == SelectSeq(NodeMapKeys(ns), LAMBDA id : id \notin childNodeIds)
      roots == [i \in 1..Len(rootIds) |-> ExportDataNode(ns, es, rootIds[i], Len(ns) + 1)]
  IN  IF \E i \in 1..Len(roots) : roots[i].kind = "circular" THEN Circular
      ELSE Document(Arr(<< Theme(msId, "mind map", Arr(roots)) >>))

\* the "export Markdown" button: getMindMapData, then saveToMarkdown; the
\* store is only read
exportMarkdown ==
  /\ ops' = ops + 1
  /\ lastOp' = "exportMarkdown"
  /\ replaying' = isUndoing
  /\ UNCHANGED <<gap, pre, saved, canvases, isLocked>>
  /\ UNCHANGED <<nodes, edges, history, actionAge, updateAge, isUndoing,
                 captureTimer, undoTimers, msId, msUsed, selectedNode,
                 newNodeRef, connectingHandle, connectionSuccessful,
                 isModalVisible, load, loadsDone>>

\* onOk of the "restore the autosaved content" dialog shown on mount
restoreAutoSave(savedNodes, savedEdges) ==
  /\ Handler("restore")
  /\ nodes' = savedNodes
  /\ edges' = savedEdges
  /\ EffectRerun
  /\ UNCHANGED <<history, actionAge, updateAge, isUndoing, undoTimers, msId,
                 msUsed, selectedNode, newNodeRef, connectingHandle,
                 connectionSuccessful, isModalVisible, load, loadsDone>>

(* ------------------------------ canvases ------------------------------ *)
\* the "auto layout" button: handleAutoLayout on the nodes and edges on screen
handleAutoLayout ==
  /\ Handler("autoLayout")
  /\ IF Len(nodes) > 0
     THEN nodes' = LayoutedNodes(nodes, edges) /\ EffectRerun
     ELSE UNCHANGED <<nodes, captureTimer>>
  /\ UNCHANGED <<edges, history, actionAge, updateAge, isUndoing, undoTimers,
                 msId, msUsed, selectedNode, newNodeRef, connectingHandle,
                 connectionSuccessful, isModalVisible, load, loadsDone>>

\* saveToHistory: the canvas on screen replaces the entry with its id in
\* canvasHistory, or is appended to it
SaveToHistory(cs, ns, es) ==
  LET newCanvas == [id |-> cs.current, nodes |-> ns, edges |-> es]
      existing == {i \in 1..Len(cs.list) : cs.list[i].id = cs.current}
  IN  IF existing # {}
      THEN LET k == CHOOSE i \in existing : \A j \in existing : i <= j
           IN  [cs EXCEPT !.list[k] = newCanvas]
      ELSE [cs EXCEPT !.list = Append(@, newCanvas)]

\* what createNewCanvas and switchToCanvas do first
SavedFirst == IF Len(nodes) > 0 THEN SaveToHistory(canvases, nodes, edges) ELSE canvases

\* switchToCanvas(canvas) for the k-th entry of the list on screen
\* switchToCanvas without its setHistory call
switchToCanvasKeepHistory(k) ==
  LET canvas == canvases.list[k]
  IN  /\ k \in 1..Len(canvases.list)
      /\ ops' = ops + 1
      /\ lastOp' = "switchCanvas"
      /\ replaying' = isUndoing
      /\ gap' = IF gap = Spaced THEN 0 ELSE TooClose
      /\ UNCHANGED <<pre, saved, isLocked>>
      /\ canvases' = [SavedFirst EXCEPT !.current = canvas.id]
      /\ nodes' = canvas.nodes
      /\ edges' = canvas.edges
      /\ EffectRerun
      /\ UNCHANGED <<history, actionAge, updateAge, isUndoing, undoTimers, msId,
                     msUsed, selectedNode, newNodeRef, connectingHandle,
                     connectionSuccessful, isModalVisible, load, loadsDone>>

switchToCanvas(k) ==
  LET canvas == canvases.list[k]
  IN  /\ k \in 1..Len(canvases.list)
      /\ ops' = ops + 1
      /\ lastOp' = "switchCanvas"
      /\ replaying' = isUndoing
      /\ gap' = IF gap = Spaced THEN 0 ELSE TooClose
      /\ UNCHANGED <<pre, saved, isLocked>>
      /\ canvases' = [SavedFirst EXCEPT !.current = canvas.id]
      /\ nodes' = canvas.nodes
      /\ edges' = canvas.edges
      /\ history' = [nodes |-> << canvas.nodes >>, edges |-> << canvas.edges >>,
                     currentIndex |-> 0]
      /\ actionAge' = 0
      /\ EffectRerun
      /\ UNCHANGED <<updateAge, isUndoing, undoTimers, msId, msUsed, selectedNode,
                     newNodeRef, connectingHandle, connectionSuccessful,
                     isModalVisible, load, loadsDone>>

\* createNewCanvas: the canvas on screen is kept in the list when the button
\* is pressed; onOk of the dialog empties the store and resets the history
createNewCanvas(ok) ==
  /\ ops' = ops + 1
  /\ lastOp' = IF ok THEN "newCanvas" ELSE "newCanvasCancelled"
  /\ replaying' = isUndoing
  /\ UNCHANGED <<pre, saved, isLocked>>
  /\ IF ok
     THEN /\ canvases' = [SavedFirst EXCEPT !.current = msId]
          /\ gap' = IF gap = Spaced THEN 0 ELSE TooClose
          /\ nodes' = <<>>
          /\ edges' = <<>>
          /\ history' = [nodes |-> << <<>> >>, edges |-> << <<>> >>, currentIndex |-> 0]
          /\ actionAge' = 0
          /\ msUsed' = TRUE
          /\ EffectRerun
     ELSE /\ canvases' = SavedFirst
          /\ UNCHANGED <<gap, nodes, edges, history, actionAge, msUsed, captureTimer>>
  /\ UNCHANGED <<updateAge, isUndoing, undoTimers, msId, selectedNode, newNodeRef,
                 connectingHandle, connectionSuccessful, isModalVisible, load,
                 loadsDone>>

\* the lock button: setIsLocked(!isLocked); the lock effect then gives every
\* node a new object (data.isLocked), so the capture effect runs again
toggleLock ==
  /\ ops' = ops + 1
  /\ lastOp' = "toggleLock"
  /\ replaying' = isUndoing
  /\ isLocked' = ~isLocked
  /\ EffectRerun
  /\ UNCHANGED <<pre, saved, gap, canvases, nodes, edges, history, actionAge,
                 updateAge, isUndoing, undoTimers, msId, msUsed, selectedNode,
                 newNodeRef, connectingHandle, connectionSuccessful,
                 isModalVisible, load, loadsDone>>

(* --------------------------- specifications --------------------------- *)
\* a session is followed for MaxOps handler invocations
Budget == ops < MaxOps

\* no connection is being dragged: while the mouse button is held on a
\* drag, the user makes no other gesture
NoDrag == connectingHandle = NoHandle

CanCreate == Len(nodes) < MaxNodes

AddNodeGesture ==
  /\ NoDrag
  /\ ~isModalVisible
  /\ CanCreate
  /\ \E c \in ViewCenters, r \in RandomOffsets : handleAddNode(c, r)

AddNodeStep == Budget /\ AddNodeGesture

SelectStep ==
  /\ Budget
  /\ NoDrag
  /\ ~isModalVisible
  /\ \/ \E i \in 1..Len(nodes) : handleNodeClick(i)
     \/ onPaneClick

DoubleClickGesture ==
  /\ NoDrag
  /\ ~isModalVisible
  /\ \E i \in 1..Len(nodes) : handleNodeDoubleClick(i)

DoubleClickStep == Budget /\ DoubleClickGesture

DeleteNodeGesture ==
  /\ NoDrag
  /\ ~isModalVisible
  /\ \E id \in Ids(nodes) : deleteNode(id)

DeleteNodeStep == Budget /\ DeleteNodeGesture

DeleteEdgeStep ==
  /\ Budget
  /\ NoDrag
  /\ ~isModalVisible
  /\ \E i \in 1..Len(edges) : deleteEdge(i)

\* the anchors gestures are tried with
StartHandles == {"right", "top"}

\* (sourceHandle, targetHandle) of the connections that are tried
ConnectHandlePairs == { <<NoHandle, NoHandle>>, <<"right", "left">>, <<"bottom", "top">> }

ConnectStartGesture ==
  /\ ~isModalVisible
  /\ connectingHandle = NoHandle
  /\ \E i \in 1..Len(nodes), h \in StartHandles : onConnectStart(i, h)

ConnectStartStep == Budget /\ ConnectStartGesture

ConnectGesture ==
  /\ ~isModalVisible
  /\ Len(edges) < MaxEdges
  /\ \E s \in Ids(nodes), t \in Ids(nodes), h \in ConnectHandlePairs :
        onConnect(s, t, h[1], h[2])

ConnectStep == Budget /\ ConnectGesture

\* a drag with the mouse lasts longer than a millisecond: when it ends on the
\* pane, the clock has moved on since the last identifier was made
ConnectEndGesture ==
  /\ ~isModalVisible
  /\ connectingHandle # NoHandle
  /\ \E tp \in BOOLEAN : (tp => CanCreate /\ ~msUsed) /\ onConnectEnd(TRUE, tp)

ConnectEndStep == Budget /\ ConnectEndGesture

ModalOkStep == Budget /\ NoDrag /\ \E v \in FormValues : handleModalOk(v)

ModalCancelGesture ==
  /\ NoDrag
  /\ \E o \in CancelOutcomes, a \in BOOLEAN, v \in FormValues : handleModalCancel(o, a, v)

ModalCancelStep == Budget /\ ModalCancelGesture

UndoStep == Budget /\ NoDrag /\ Len(undoTimers) < MaxUndoTimers /\ handleUndo

RedoStep == Budget /\ NoDrag /\ Len(undoTimers) < MaxUndoTimers /\ handleRedo

\* the load button is disabled while the store holds a node
LoadGesture ==
  /\ NoDrag
  /\ ~isModalVisible
  /\ Len(nodes) = 0
  /\ loadsDone < MaxLoads
  /\ \E d \in Docs : handleLoad(d)

LoadStep == Budget /\ LoadGesture

\* graph editing: every gesture on the canvas and the dialog, at one instant
NextGraph ==
  \/ MsPasses
  \/ AddNodeStep
  \/ SelectStep
  \/ DoubleClickStep
  \/ DeleteNodeStep
  \/ DeleteEdgeStep
  \/ ConnectStartStep
  \/ ConnectStep
  \/ ConnectEndStep
  \/ ModalOkStep
  \/ ModalCancelStep

SpecGraph == Init /\ [][NextGraph]_vars

\* history: creation and removal against the clock and the timers
NextHistory ==
  \/ Tick
  \/ MsPasses
  \/ CaptureTimerFires
  \/ UndoResetFires
  \/ AddNodeStep
  \/ ModalOkStep
  \/ DeleteNodeStep
  \/ UndoStep
  \/ RedoStep

SpecHistory == Init /\ [][NextHistory]_vars

\* loading a file into a canvas that was edited before
NextLoad ==
  \/ Jump
  \/ MsPasses
  \/ CaptureTimerFires
  \/ AddNodeStep
  \/ ModalOkStep
  \/ DeleteNodeStep
  \/ LoadStep
  \/ LoadApply
  \/ LoadFitView
  \/ LoadLayout

SpecLoad == Init /\ [][NextLoad]_vars

\* a long session of one user who adds a node, lets the capture run, removes
\* the node, lets the capture run, and clears the selection before adding again
ChainBudget == ops < MaxChain

AddLoneStep ==
  /\ ChainBudget
  /\ captureTimer = NoTimer
  /\ Len(nodes) = 0
  /\ selectedNode = <<>>
  /\ handleAddNode(Pos(0, 0), Pos(0, 0))

DeleteLoneStep ==
  /\ ChainBudget
  /\ captureTimer = NoTimer
  /\ Len(nodes) = 1
  /\ deleteNode(nodes[1].id)

PaneClickStep ==
  /\ ChainBudget
  /\ captureTimer = NoTimer
  /\ Len(nodes) = 0
  /\ selectedNode # <<>>
  /\ onPaneClick

NextBound ==
  \/ Jump
  \/ CaptureTimerFires
  \/ AddLoneStep
  \/ DeleteLoneStep
  \/ PaneClickStep

SpecBound == Init /\ [][NextBound]_vars

\* a longer run of gestures of one user, ended by a load; two gestures of
\* one user that create something are more than a millisecond apart
LongBudget == ops < MaxGestures

AddNodeLong == LongBudget /\ ~msUsed /\ AddNodeGesture

ConnectStartLong == LongBudget /\ ConnectStartGesture

ConnectEndLong == LongBudget /\ ConnectEndGesture

ConnectLong == LongBudget /\ ~msUsed /\ ConnectGesture

DoubleClickLong == LongBudget /\ DoubleClickGesture

ModalCancelLong == LongBudget /\ ModalCancelGesture

DeleteNodeLong == LongBudget /\ DeleteNodeGesture

LoadLong == LongBudget /\ LoadGesture

NextPartial ==
  \/ MsPasses
  \/ AddNodeLong
  \/ ConnectStartLong
  \/ ConnectEndLong
  \/ ConnectLong
  \/ DoubleClickLong
  \/ ModalCancelLong
  \/ DeleteNodeLong
  \/ LoadLong

SpecPartial == Init /\ [][NextPartial]_vars

\* saving a canvas that was edited, emptying it and loading the saved file
ClearedDates == [title |-> "T", start_date |-> 0, due_date |-> 0]

ClearDatesStep ==
  /\ Budget
  /\ handleModalOk(ClearedDates)

SaveStep ==
  /\ Budget
  /\ NoDrag
  /\ ~isModalVisible
  /\ \E written \in BOOLEAN : handleSave(written, written)

LoadSavedStep ==
  /\ Budget
  /\ NoDrag
  /\ ~isModalVisible
  /\ Len(nodes) = 0
  /\ loadsDone < MaxLoads
  /\ saved.doc # Document(Missing)
  /\ handleLoad(saved.doc)

NextRoundTrip ==
  \/ Jump
  \/ CaptureTimerFires
  \/ AddNodeStep
  \/ DoubleClickStep
  \/ ClearDatesStep
  \/ ConnectStep
  \/ SaveStep
  \/ DeleteNodeStep
  \/ LoadSavedStep
  \/ LoadApply
  \/ LoadFitView
  \/ LoadLayout

SpecRoundTrip == Init /\ [][NextRoundTrip]_vars

\* exporting what a session of gestures has left in the store
SaveLong == LongBudget /\ NoDrag /\ ~isModalVisible /\ handleSave(TRUE, TRUE)

ExportMarkdownLong == LongBudget /\ NoDrag /\ ~isModalVisible /\ exportMarkdown

NextExport ==
  \/ MsPasses
  \/ AddNodeLong
  \/ ConnectStartLong
  \/ ConnectEndLong
  \/ ConnectLong
  \/ DoubleClickLong
  \/ ModalCancelLong
  \/ SaveLong
  \/ ExportMarkdownLong

SpecExport == Init /\ [][NextExport]_vars

\* building a graph whose nodes can have several parents, labelling its
\* edges and saving it
TreeAddStep ==
  /\ LongBudget
  /\ NoDrag
  /\ ~isModalVisible
  /\ ~msUsed
  /\ Len(nodes) < MaxTreeNodes
  /\ \E r \in RandomOffsets : handleAddNode(Pos(0, 0), r)

TreeOkStep ==
  /\ LongBudget
  /\ \E v \in FormValues : FormValid(v) /\ handleModalOk(v)

TreePaneStep ==
  /\ LongBudget
  /\ ~isModalVisible
  /\ selectedNode # <<>>
  /\ onPaneClick

TreeConnectStep ==
  /\ LongBudget
  /\ ~isModalVisible
  /\ ~msUsed
  /\ Len(edges) < MaxEdges
  /\ \E s \in Ids(nodes), t \in Ids(nodes) : onConnect(s, t, "right", "left")

TreeLabelStep ==
  /\ LongBudget
  /\ ~isModalVisible
  /\ \E i \in 1..Len(edges) : edges[i].label = "" /\ handleTextChange(i, "a")

NextTree ==
  \/ MsPasses
  \/ TreeAddStep
  \/ TreeOkStep
  \/ TreePaneStep
  \/ TreeConnectStep
  \/ TreeLabelStep
  \/ SaveLong

SpecTree == Init /\ [][NextTree]_vars

\* connection gestures one after another, with a mouse or by touch, from
\* anchors with the four known names, with another name, or with none
GestureHandles == {"right", "top", "center", NoHandle}

\* a new gesture starts when none is under way
GestureStartStep ==
  /\ Budget
  /\ ~isModalVisible
  /\ lastOp \notin {"connectStart", "connect", "connectExisting"}
  /\ \E i \in 1..Len(nodes), h \in GestureHandles : onConnectStart(i, h)

\* the canvas calls onConnect when the pointer is released on an anchor,
\* before it calls onConnectEnd
GestureConnectStep ==
  /\ lastOp = "connectStart"
  /\ ConnectStep

GestureEndStep ==
  /\ Budget
  /\ lastOp \in {"connectStart", "connect", "connectExisting"}
  /\ \E hp \in BOOLEAN, tp \in BOOLEAN :
        (tp => CanCreate /\ ~msUsed) /\ onConnectEnd(hp, tp)

\* the toolbar button between gestures
GestureAddStep ==
  /\ lastOp \notin {"connectStart", "connect", "connectExisting"}
  /\ selectedNode = <<>>
  /\ Budget
  /\ ~isModalVisible
  /\ CanCreate
  /\ \E c \in ViewCenters, r \in RandomOffsets : handleAddNode(c, r)

NextGesture ==
  \/ MsPasses
  \/ GestureAddStep
  \/ GestureStartStep
  \/ GestureConnectStep
  \/ GestureEndStep

SpecGesture == Init /\ [][NextGesture]_vars

\* connecting nodes that were dragged about the canvas, with no anchors given
MovePositions == {Pos(0, 0), Pos(300, 0), Pos(200, 200), Pos(-100, 100)}

MoveNodeStep ==
  /\ Budget
  /\ NoDrag
  /\ ~isModalVisible
  /\ \E i \in 1..Len(nodes), p \in MovePositions : onNodesChange(i, p)

ConnectAutoStep ==
  /\ Budget
  /\ ~isModalVisible
  /\ Len(edges) < MaxEdges
  /\ \E s \in Ids(nodes), t \in Ids(nodes) : onConnect(s, t, NoHandle, NoHandle)

NextAnchor ==
  \/ MsPasses
  \/ AddNodeStep
  \/ SelectStep
  \/ ModalOkStep
  \/ MoveNodeStep
  \/ ConnectAutoStep

SpecAnchor == Init /\ [][NextAnchor]_vars

\* several canvases: editing, undoing, laying out, opening a new canvas and
\* going back to one of the list
LayoutStep == Budget /\ NoDrag /\ ~isModalVisible /\ Len(nodes) > 0 /\ handleAutoLayout

NewCanvasStep ==
  /\ Budget
  /\ NoDrag
  /\ ~isModalVisible
  /\ ~msUsed
  /\ \E ok \in BOOLEAN : createNewCanvas(ok)

SwitchCanvasStep ==
  /\ Budget
  /\ NoDrag
  /\ ~isModalVisible
  /\ \E k \in 1..Len(canvases.list) : switchToCanvas(k)

NextCanvas ==
  \/ Jump
  \/ MsPasses
  \/ CaptureTimerFires
  \/ UndoResetFires
  \/ AddNodeStep
  \/ ModalOkStep
  \/ UndoStep
  \/ RedoStep
  \/ LayoutStep
  \/ NewCanvasStep
  \/ SwitchCanvasStep

SpecCanvas == Init /\ [][NextCanvas]_vars

\* gestures and the dialog against the clock: what the capture effect finds
\* in the store when its timeout runs
NextCapture ==
  \/ Jump
  \/ CaptureTimerFires
  \/ AddNodeStep
  \/ DoubleClickStep
  \/ ConnectStartStep
  \/ ConnectEndStep
  \/ ModalCancelStep
  \/ DeleteNodeStep

SpecCapture == Init /\ [][NextCapture]_vars

\* saving graphs, also graphs with a cycle, when either file can fail to be
\* written
SaveBothStep ==
  /\ Budget
  /\ NoDrag
  /\ ~isModalVisible
  /\ \E written \in BOOLEAN, mdWritten \in BOOLEAN : handleSave(written, mdWritten)

NextSave ==
  \/ MsPasses
  \/ AddNodeStep
  \/ ModalOkStep
  \/ ConnectStep
  \/ SaveBothStep

SpecSave == Init /\ [][NextSave]_vars

\* loading a file while an earlier load has not put its nodes on the canvas
\* yet, against the clock
LoadAgainStep == Budget /\ NoDrag /\ ~isModalVisible /\ \E d \in Docs : handleLoadAgain(d)

NextReload ==
  \/ Tick
  \/ CaptureTimerFires
  \/ LoadStep
  \/ LoadAgainStep
  \/ LoadApply
  \/ LoadApplyAgain
  \/ LoadFitView
  \/ LoadLayout

SpecReload == Init /\ [][NextReload]_vars

\* the overlap pass as a function: lists of three nodes, each at one of
\* the positions below (in px), and the pass applied to them twice
OverlapInputs ==
  {Pos(0, 0), Pos(40, 0), Pos(0, 30), Pos(100, 20), Pos(60, 40), Pos(300, 300)}

InitOverlap ==
  /\ \E ps \in [1..OverlapNodes -> OverlapInputs] :
       nodes = [i \in 1..OverlapNodes |->
                  FreshNode(i, ps[i].x * Sub, ps[i].y * Sub, "new")]
  /\ edges = <<>>
  /\ history = [nodes |-> << <<>> >>, edges |-> << <<>> >>, currentIndex |-> 0]
  /\ actionAge = 0
  /\ updateAge = 0
  /\ isUndoing = FALSE
  /\ captureTimer = NoTimer
  /\ undoTimers = <<>>
  /\ msId = OverlapNodes + 1
  /\ msUsed = FALSE
  /\ selectedNode = <<>>
  /\ newNodeRef = <<>>
  /\ connectingHandle = NoHandle
  /\ connectionSuccessful = FALSE
  /\ isModalVisible = FALSE
  /\ load = IdleLoad
  /\ loadsDone = 0
  /\ ops = 0
  /\ lastOp = "init"
  /\ pre = [nodes |-> <<>>, edges |-> <<>>,
            history |-> [nodes |-> << <<>> >>, edges |-> << <<>> >>,
                         currentIndex |-> 0],
            settled |-> FALSE]
  /\ replaying = FALSE
  /\ gap = DebounceUnits + 1
  /\ saved = NothingSaved
  /\ canvases = [current |-> 0, list |-> <<>>]
  /\ isLocked = FALSE

OverlapStep == ops < 2 /\ ApplyResolveOverlaps

NextOverlap == OverlapStep

SpecOverlap == InitOverlap /\ [][NextOverlap]_vars

\* the lock: what the buttons and the canvas accept while isLocked is set.
\* The add, new-canvas, undo and redo buttons are disabled by the lock and
\* the keyboard shortcuts return at once; the lock button and the list of
\* earlier canvases are not.
ToggleLockStep == Budget /\ NoDrag /\ ~isModalVisible /\ toggleLock

UnlockedAddStep == ~isLocked /\ AddNodeStep

UnlockedNewCanvasStep == ~isLocked /\ NewCanvasStep

UnlockedUndoStep == ~isLocked /\ UndoStep

NextLock ==
  \/ Jump
  \/ MsPasses
  \/ CaptureTimerFires
  \/ UndoResetFires
  \/ ToggleLockStep
  \/ UnlockedAddStep
  \/ ModalOkStep
  \/ UnlockedNewCanvasStep
  \/ UnlockedUndoStep
  \/ SwitchCanvasStep

SpecLock == Init /\ [][NextLock]_vars

\* going from canvas to canvas: nodes added and removed, canvases opened
\* and revisited, over a run of MaxGestures handlers
NewCanvasLong ==
  /\ LongBudget
  /\ NoDrag
  /\ ~isModalVisible
  /\ ~msUsed
  /\ \E ok \in BOOLEAN : createNewCanvas(ok)

SwitchCanvasLong ==
  /\ LongBudget
  /\ NoDrag
  /\ ~isModalVisible
  /\ \E k \in 1..Len(canvases.list) : switchToCanvas(k)

NextSwitch ==
  \/ MsPasses
  \/ AddNodeLong
  \/ ModalCancelLong
  \/ DeleteNodeLong
  \/ NewCanvasLong
  \/ SwitchCanvasLong

SpecSwitch == Init /\ [][NextSwitch]_vars

\* every step of the program
Next ==
  \/ NextRoundTrip
  \/ NextPartial
  \/ NextGraph
  \/ NextHistory
  \/ NextLoad
  \/ NextBound
  \/ NextExport
  \/ NextTree
  \/ NextGesture
  \/ NextAnchor
  \/ NextCanvas
  \/ NextCapture
  \/ NextSave
  \/ NextReload
  \/ NextOverlap
  \/ NextLock
  \/ NextSwitch

Spec == Init /\ [][Next]_vars

(* ------------------------------- claims ------------------------------- *)
\* C1: every edge of the store has a source and a target that are ids of
\* nodes of the store
NoDanglingEdges ==
  \A i \in 1..Len(edges) :
    edges[i].source \in Ids(nodes) /\ edges[i].target \in Ids(nodes)

\* two edges join the same anchors of the same nodes
SameConnection(e, f) ==
  /\ e.source = f.source
  /\ e.target = f.target
  /\ e.sourceHandle = f.sourceHandle
  /\ e.targetHandle = f.targetHandle

NoDuplicateEdges(es) ==
  \A i, j \in 1..Len(es) : i # j => ~SameConnection(es[i], es[j])

\* the step is a run of onConnect
ConnectTaken == ops' = ops + 1 /\ lastOp' \in {"connect", "connectExisting"}

\* C2: a connect gesture either leaves the edge list as it is or appends one
\* edge whose (source, target, sourceHandle, targetHandle) no edge had, so
\* it never introduces two edges with the same four values
ConnectAddsNoDuplicate ==
  [][ConnectTaken =>
       /\ \/ edges' = edges
          \/ /\ Len(edges') = Len(edges) + 1
             /\ SubSeq(edges', 1, Len(edges)) = edges
             /\ \A i \in 1..Len(edges) : ~SameConnection(edges[i], edges'[Len(edges')])
       /\ NoDuplicateEdges(edges) => NoDuplicateEdges(edges')]_vars

\* a connect between anchors that were already joined has left the edges alone
ConnectRejectedDuplicate ==
  /\ lastOp = "connectExisting"
  /\ Len(edges) > 0
  /\ NoDuplicateEdges(edges)

\* C3: no two nodes of the store have the same id
UniqueNodeIds ==
  \A i, j \in 1..Len(nodes) : i # j => nodes[i].id # nodes[j].id

\* C4: when an undo, made with no timeout pending, was followed directly by a
\* redo, after mutations that were all more than the debounce window apart,
\* the nodes and the edges are those that were live before the undo
UndoRedoRestores ==
  (lastOp = "undoRedo" /\ gap # TooClose /\ pre.settled) =>
     (nodes = pre.nodes /\ edges = pre.edges)

\* the handlers that add or remove a node or an edge
StructuralOps == {"addNode", "deleteNode", "deleteEdge", "connect", "dragToPane",
                  "modalCancelRollback"}

\* C5: once every timer has fired after an add or a removal made while no
\* undo or redo was being applied, the snapshot at currentIndex holds the
\* nodes and the edges of the store
CaptureNotSkipped ==
  (lastOp \in StructuralOps /\ ~replaying /\ TimersDone) =>
     /\ history.nodes[history.currentIndex + 1] = JSONCloneNodes(nodes)
     /\ history.edges[history.currentIndex + 1] = JSONCloneEdges(edges)

HistoryBounded ==
  /\ [](/\ Len(history.nodes) <= 50
        /\ Len(history.edges) <= 50)
  /\ [][(Len(history.nodes) = 50 /\ history'.nodes # history.nodes) =>
          /\ history'.nodes = Append(Tail(history.nodes), JSONCloneNodes(nodes))
          /\ history'.edges = Append(Tail(history.edges), JSONCloneEdges(edges))
          /\ history'.currentIndex = 49]_vars

\* the history is full and the snapshot of the empty start has been dropped
OldestEvicted ==
  /\ Len(history.nodes) = 50
  /\ history.currentIndex = 49
  /\ history.nodes[1] # <<>>

\* every node of ns is the target of at most one edge of es
InDegreeAtMostOne(ns, es) ==
  \A i \in 1..Len(ns) :
    Cardinality({j \in 1..Len(es) : es[j].target = ns[i].id}) <= 1

\* a graph whose ids are distinct and whose edges join nodes of the graph
WellFormed(ns, es) ==
  /\ \A i, j \in 1..Len(ns) : i # j => ns[i].id # ns[j].id
  /\ \A i \in 1..Len(es) : es[i].source \in Ids(ns) /\ es[i].target \in Ids(ns)

\* the field values of a node that a document carries
FieldsOf(n) ==
  [title |-> n.nd.title, description |-> n.nd.description,
   priority |-> n.nd.priority, status |-> n.nd.status,
   start_date |-> n.nd.start_date, due_date |-> n.nd.due_date]

\* (parent, child) pairs of es, as positions in ns
LinksOf(ns, es) ==
  {<<i, j>> \in (1..Len(ns)) \X (1..Len(ns)) :
     \E k \in 1..Len(es) : es[k].source = ns[i].id /\ es[k].target = ns[j].id}

\* some one-to-one renaming of the nodes keeps every field value and maps
\* the parent/child edges of one graph onto those of the other
Isomorphic(ns1, es1, ns2, es2) ==
  /\ Len(ns1) = Len(ns2)
  /\ Len(es1) = Len(es2)
  /\ \E f \in [1..Len(ns1) -> 1..Len(ns1)] :
       /\ \A i, j \in 1..Len(ns1) : i # j => f[i] # f[j]
       /\ \A i \in 1..Len(ns1) : FieldsOf(ns1[i]) = FieldsOf(ns2[f[i]])
       /\ {<<f[l[1]], f[l[2]]>> : l \in LinksOf(ns1, es1)} = LinksOf(ns2, es2)

\* a file saved from a non-empty store has been loaded into the emptied canvas
RoundTripDone ==
  /\ lastOp = "load"
  /\ load.result = "ok"
  /\ saved.result = "ok"
  /\ Len(saved.nodes) > 0
  /\ WellFormed(saved.nodes, saved.edges)

\* C8: when the saved store had at most one incoming edge per node, the
\* store after loading the saved file is isomorphic to the saved store
RoundTripIsomorphic ==
  (RoundTripDone /\ InDegreeAtMostOne(saved.nodes, saved.edges)) =>
     Isomorphic(saved.nodes, saved.edges, nodes, edges)

\* C9: a load of a file whose mindMaps is missing or is no array reports a
\* failure and leaves the nodes, the edges and the history as they were
MalformedLoadRejected ==
  [][\A d \in Docs :
       (d.mindMaps.kind # "array" /\ handleLoad(d)) =>
          /\ load'.result = "failed"
          /\ nodes' = nodes
          /\ edges' = edges
          /\ history' = history]_vars

\* a malformed file was refused on a canvas that had been edited before
MalformedRefused ==
  /\ lastOp = "load"
  /\ load.result = "failed"
  /\ load.cause = "malformed"
  /\ Len(history.nodes) > 1

\* the step is a run of handleLoad that ended in a reported failure
LoadFailed ==
  /\ ops' = ops + 1
  /\ lastOp' = "load"
  /\ load'.result = "failed"

\* C10: a load that ends in a reported failure leaves the set of nodes and
\* the set of edges as they were when it started
FailedLoadKeepsStore ==
  [][LoadFailed => (Range(nodes') = Range(nodes) /\ Range(edges') = Range(edges))]_vars

\* the step empties the history list: a canvas is opened in place of the one
\* on screen
HistoryReset == lastOp' \in {"switchCanvas", "newCanvas"} /\ ops' = ops + 1

\* the snapshots of h that are still in h2 are the first `keep` of h without
\* the first `drop`, and h2 holds them, as they were, before the one it adds
KeptAsTheyWere(h, h2, drop, keep) ==
  /\ Len(h2.nodes) = keep - drop + 1
  /\ SubSeq(h2.nodes, 1, keep - drop) = SubSeq(h.nodes, 1 + drop, keep)
  /\ SubSeq(h2.edges, 1, keep - drop) = SubSeq(h.edges, 1 + drop, keep)

\* C21: a step either leaves every snapshot list as it is, or empties the
\* history for another canvas, or puts one snapshot after snapshots that are
\* in the list already: the snapshots that stay in the list keep their nodes
\* and edges, whatever the step does to the store
SnapshotsIsolated ==
  [][\/ (history'.nodes = history.nodes /\ history'.edges = history.edges)
     \/ HistoryReset
     \/ \E drop \in {0, 1}, keep \in 1..Len(history.nodes) :
           KeptAsTheyWere(history, history', drop, keep)]_vars

\* after an undo the store, which was set from a snapshot, was edited and laid
\* out while that snapshot and the one after it stayed in the list
EditedOverSnapshots ==
  /\ lastOp = "autoLayout"
  /\ history.currentIndex < Len(history.nodes) - 1
  /\ Len(nodes) = Len(history.nodes[history.currentIndex + 1])
  /\ nodes # history.nodes[history.currentIndex + 1]
  /\ Len(canvases.list) > 0

\* every edge of the i-th snapshot joins two nodes of the i-th snapshot
SnapshotClosed(i) ==
  \A k \in 1..Len(history.edges[i]) :
     /\ history.edges[i][k].source \in Ids(history.nodes[i])
     /\ history.edges[i][k].target \in Ids(history.nodes[i])

\* C22: a snapshot put into the history list holds the nodes and the edges
\* the store has at that moment, and no snapshot of the list contains an edge
\* whose source or target is missing from the nodes of that snapshot
NoPartialSnapshots ==
  /\ [](\A i \in 1..Len(history.nodes) : SnapshotClosed(i))
  /\ [][(history'.nodes # history.nodes /\ ~HistoryReset) =>
          /\ history'.nodes[Len(history'.nodes)] = JSONCloneNodes(nodes')
          /\ history'.edges[Len(history'.edges)] = JSONCloneEdges(edges')]_vars

\* both dates of the node are set and the due date is the earlier one
DatesReversed(n) ==
  /\ n.nd.start_date # 0
  /\ n.nd.due_date # 0
  /\ n.nd.due_date < n.nd.start_date

\* C23: after an edit committed through the dialog, by its OK button or by
\* closing it with auto-save on, the edited node does not have a start date
\* and a due date with the due date the earlier one
DateOrderEnforced ==
  (lastOp \in {"modalOk", "modalCancelSave"} /\ Len(selectedNode) > 0) =>
     \A i \in 1..Len(nodes) :
        nodes[i].id = selectedNode[1].id => ~DatesReversed(nodes[i])

\* the formats the report of the last save names as written
ReportedFormats(report) ==
  CASE report = "both" -> {"json", "markdown"}
    [] report = "json" -> {"json"}
    [] report = "markdown" -> {"markdown"}
    [] OTHER -> {}

\* C24: a save tries the JSON file and the Markdown file each whatever
\* becomes of the other, its report names exactly the formats that were
\* written, and it reports a failure only when neither was
SaveReportsPartialFailure ==
  [][\A written \in BOOLEAN, mdWritten \in BOOLEAN :
       handleSave(written, mdWritten) =>
         LET doc == mindMapData(nodes, edges)
             json == saveToFile(doc, written)
             md == saveToMarkdown(doc, mdWritten)
         IN  /\ (saved'.result = "ok") = json
             /\ ReportedFormats(saved'.report) =
                  (IF json THEN {"json"} ELSE {}) \cup (IF md THEN {"markdown"} ELSE {})
             /\ (saved'.report = "failed") = (~json /\ ~md)]_vars

\* a save wrote the Markdown file although the JSON file could not be written
MarkdownOnlySaved ==
  /\ lastOp = "save"
  /\ saved.report = "markdown"
  /\ saved.result = "failed"
  /\ Len(nodes) > 0

\* the list q with x put last, without its first element when that makes
\* more than 50
PushBounded(q, x) ==
  IF Len(q) + 1 > 50 THEN Append(Tail(q), x) ELSE Append(q, x)

\* C25: a capture that is accepted discards the snapshots after
\* currentIndex, puts a copy of the captured store last and leaves
\* currentIndex at the last index, so that no redo is possible; the snapshots
\* up to the old currentIndex stay as they were, the first one leaving when
\* the list would exceed 50
AcceptedCapture ==
  [][((CaptureTimerFires \/ LoadApply) /\ history' # history) =>
       /\ history'.nodes =
            PushBounded(SubSeq(history.nodes, 1, history.currentIndex + 1),
                        JSONCloneNodes(nodes'))
       /\ history'.edges =
            PushBounded(SubSeq(history.edges, 1, history.currentIndex + 1),
                        JSONCloneEdges(edges'))
       /\ history'.currentIndex = Len(history'.nodes) - 1]_vars

\* after an undo a change of the store was captured: the snapshots the undo
\* had left to redo are gone and the captured store is the last snapshot
RedoTailDiscarded ==
  /\ lastOp \in {"addNode", "deleteNode"}
  /\ TimersDone
  /\ Len(pre.history.nodes) >= 2
  /\ Len(history.nodes) <= Len(pre.history.nodes)
  /\ history.nodes # pre.history.nodes
  /\ history.currentIndex = Len(history.nodes) - 1
  /\ history.nodes[Len(history.nodes)] = JSONCloneNodes(nodes)

\* the step is a run of addToHistory: the timeout of the capture effect, or
\* the continuation of a load
CaptureAttempt == CaptureTimerFires \/ LoadApply \/ LoadApplyAgain

\* C26: a run of addToHistory changes the history only when 100 ms or more
\* have passed since the last run that passed the time check, so that two
\* accepted captures are at least 100 ms apart; a run less than 100 ms after
\* the last run that passed the time check leaves the history and the time
\* of that run as they are
CaptureDebounced ==
  [][CaptureAttempt =>
       /\ history' # history => updateAge >= DebounceUnits
       /\ updateAge < DebounceUnits =>
             (history' = history /\ updateAge' = updateAge)]_vars

\* two loads ran into each other: the nodes of the second are on the canvas,
\* and its capture, less than 100 ms after the capture of the first, was dropped
SecondCaptureDropped ==
  /\ load.result = "ok"
  /\ load.overlap.result = "ok"
  /\ nodes = load.overlap.newNodes
  /\ Len(load.overlap.newNodes) # Len(load.newNodes)
  /\ history.nodes[Len(history.nodes)] = JSONCloneNodes(load.newNodes)
  /\ updateAge < DebounceUnits

\* a load has put its nodes on the canvas and no gesture was made since
AfterLoad == lastOp = "load" /\ load.result = "ok"

\* C27: the continuation of a successful load puts exactly one snapshot after
\* the snapshot at currentIndex, a copy of the loaded nodes and edges, and
\* leaves currentIndex at it; the capture timeout that runs after it, before
\* the automatic layout, adds no further snapshot
LoadPushesOneSnapshot ==
  /\ [][LoadApply =>
          /\ history'.nodes =
               PushBounded(SubSeq(history.nodes, 1, history.currentIndex + 1),
                           JSONCloneNodes(load.newNodes))
          /\ history'.edges =
               PushBounded(SubSeq(history.edges, 1, history.currentIndex + 1),
                           JSONCloneEdges(load.newEdges))
          /\ history'.currentIndex = Len(history'.nodes) - 1]_vars
  /\ [][(CaptureTimerFires /\ AfterLoad /\ load.phase = "fit") =>
          history' = history]_vars

\* C28: when the 500 ms timeout of a successful load runs, with no gesture
\* made since the load, the store holds the loaded nodes at the positions the
\* layout gives them for the loaded edges
LayoutAfterLoad ==
  [][(LoadLayout /\ AfterLoad /\ Len(load.newNodes) > 0) =>
       nodes' = LayoutedNodes(load.newNodes, load.newEdges)]_vars

\* the layout button was pressed on a store of several nodes, one of them
\* edited through the dialog, and an edge
LaidOut ==
  /\ lastOp = "autoLayout"
  /\ Len(nodes) >= 2
  /\ Len(edges) >= 1
  /\ \E i \in 1..Len(nodes) : nodes[i].nd.title = "T"
  /\ nodes = LayoutedNodes(nodes, edges)

\* the dialog is open on a node of the store that newNodeRef does not hold
OpenOnOtherNode ==
  /\ isModalVisible
  /\ lastOp = "nodeDoubleClick"
  /\ Len(selectedNode) > 0
  /\ selectedNode[1].id \in Ids(nodes)
  /\ (Len(newNodeRef) > 0 => newNodeRef[1].id # selectedNode[1].id)

\* the dialog was closed by its cancel button
Cancelled ==
  /\ isModalVisible
  /\ ~isModalVisible'
  /\ lastOp' \in {"modalCancel", "modalCancelRollback", "modalCancelSave"}

\* C29: cancelling a dialog that was opened by a double click on a node
\* other than the one newNodeRef holds keeps the ids of the nodes and the
\* list of edges as they were, also after a drag to the pane made a node
CancelKeepsOtherNodes ==
  [][OpenOnOtherNode /\ Cancelled =>
       Ids(nodes') = Ids(nodes) /\ edges' = edges]_vars

\* the OK button of the dialog passed validation in this step
Committed ==
  /\ isModalVisible
  /\ ops' = ops + 1
  /\ lastOp' = "modalOk"

\* node m is node n but for the fields the form holds
OnlyFormFields(n, m) ==
  [m EXCEPT !.nd.title = n.nd.title,
            !.nd.start_date = n.nd.start_date,
            !.nd.due_date = n.nd.due_date] = n

\* C30: a commit of the dialog keeps the edges and the number of nodes,
\* keeps every node whose id is not the id of selectedNode, and of a node
\* with that id changes nothing but the fields of the form: its id, its
\* position and the rest of its data stay; when no node has the id, or no
\* node is selected, the list of nodes stays as it is
EditFrame ==
  [][Committed =>
       /\ edges' = edges
       /\ Len(nodes') = Len(nodes)
       /\ \A i \in 1..Len(nodes) :
            IF Len(selectedNode) > 0 /\ nodes[i].id = selectedNode[1].id
            THEN OnlyFormFields(nodes[i], nodes'[i])
            ELSE nodes'[i] = nodes[i]]_vars

\* a commit changed one node of a store that holds another node as well
EditedOneOfTwo ==
  /\ lastOp = "modalOk"
  /\ \E i, j \in 1..Len(nodes) :
       /\ nodes[i].nd.title = "T"
       /\ nodes[j].nd.title # "T"
       /\ nodes[j].id # nodes[i].id

\* handleAutoLayout ran in this step: from its button, or from the 500 ms
\* timeout of a load
LayoutRun ==
  \/ ops' = ops + 1 /\ lastOp' = "autoLayout"
  \/ LoadLayout

\* C31: a run of the automatic layout keeps the number of nodes, the id and
\* the task fields of every node and the list of edges; on a store without
\* nodes it changes neither the store nor the history nor the capture timer
LayoutFrame ==
  [][LayoutRun =>
       /\ edges' = edges
       /\ Len(nodes') = Len(nodes)
       /\ \A i \in 1..Len(nodes) :
            nodes'[i].id = nodes[i].id /\ nodes'[i].nd = nodes[i].nd
       /\ (Len(nodes) = 0 =>
             nodes' = nodes /\ history' = history /\ captureTimer' = captureTimer)]_vars

\* the sum of the displacements along an axis that the pushes gave node k
RECURSIVE Displacement(_, _, _)
Displacement(pushes, k, axis) ==
  IF Len(pushes) = 0 THEN 0
  ELSE LET p == pushes[Len(pushes)]
           d == IF p.axis # axis THEN 0
                ELSE IF p.i = k THEN p.half
                ELSE IF p.j = k THEN -p.half
                ELSE 0
       IN  d + Displacement(SubSeq(pushes, 1, Len(pushes) - 1), k, axis)

\* the push is along the axis that needs the smaller move, and its two
\* halves make up the separation the positions of the pair at that moment
\* lack
PushFromCurrent(p) ==
  LET moveX == (NODE_WIDTH * Sub + 10 * Sub) - Abs(p.ax - p.bx)
      moveY == (NODE_HEIGHT * Sub + 10 * Sub) - Abs(p.ay - p.by)
  IN  IF p.axis = "x"
      THEN moveX < moveY /\ 2 * Abs(p.half) = moveX
      ELSE moveX >= moveY /\ 2 * Abs(p.half) = moveY

NodeAdded == ops' = ops + 1 /\ lastOp' = "addNode"

\* C33: handleAddNode called with the id of a selected node appends one node
\* and one edge, from that id at anchor right to the new node at anchor
\* left; called without an id it appends one node and leaves the edges
AddChildAddsEdge ==
  [][NodeAdded =>
       /\ Len(nodes') = Len(nodes) + 1
       /\ SubSeq(nodes', 1, Len(nodes)) = nodes
       /\ IF Len(selectedNode) > 0
          THEN /\ Len(edges') = Len(edges) + 1
               /\ SubSeq(edges', 1, Len(edges)) = edges
               /\ LET e == edges'[Len(edges')]
                  IN  /\ e.source = selectedNode[1].id
                      /\ e.target = nodes'[Len(nodes')].id
                      /\ e.sourceHandle = "right"
                      /\ e.targetHandle = "left"
          ELSE edges' = edges]_vars

\* C34: while isLocked is set, no handler started by the user changes the
\* ids of the nodes or the list of edges with their labels
LockedGraphFixed ==
  [][(isLocked /\ ops' = ops + 1) =>
       Ids(nodes') = Ids(nodes) /\ edges' = edges]_vars

\* the canvas on screen was left in this step for the canvas of another id
CanvasLeft ==
  /\ ops' = ops + 1
  /\ lastOp' \in {"switchCanvas", "newCanvas"}
  /\ canvases'.current # canvases.current

\* C35: a canvas that is left and can be returned to is kept in the list as
\* the store held it at that moment, also when the store was empty; the
\* entries of the canvases not on screen stay as they are; and a switch puts
\* the nodes and edges of the chosen entry into the store
SwitchRoundTrip ==
  /\ [][CanvasLeft =>
          \A i \in 1..Len(canvases'.list) :
             canvases'.list[i].id = canvases.current =>
               (canvases'.list[i].nodes = nodes /\ canvases'.list[i].edges = edges)]_vars
  /\ [][\A i \in 1..Len(canvases.list) :
          canvases.list[i].id # canvases.current =>
            (i <= Len(canvases'.list) /\ canvases'.list[i] = canvases.list[i])]_vars
  /\ [][(CanvasLeft /\ lastOp' = "switchCanvas") =>
          \E k \in 1..Len(canvases.list) :
             /\ canvases.list[k].id = canvases'.current
             /\ nodes' = canvases.list[k].nodes
             /\ edges' = canvases.list[k].edges]_vars

\* a new canvas was confirmed or a canvas was chosen from the list, no
\* handler has run since, and no timeout is pending
CanvasSettled ==
  /\ lastOp \in {"newCanvas", "switchCanvas"}
  /\ TimersDone

\* C36: once the timeouts have run after a new canvas was confirmed or a
\* canvas was chosen, the history is one snapshot, the nodes and edges of
\* the canvas on screen, with currentIndex 0
UndoStaysInCanvas ==
  CanvasSettled =>
    /\ history.nodes = << nodes >>
    /\ history.edges = << edges >>
    /\ history.currentIndex = 0

\* a canvas with a node was chosen while the canvas left behind, with another
\* node and an undo history of its own, went into the list
SwitchedAndSettled ==
  /\ CanvasSettled
  /\ lastOp = "switchCanvas"
  /\ Len(nodes) > 0
  /\ \E i \in 1..Len(canvases.list) :
       /\ canvases.list[i].id # canvases.current
       /\ Ids(canvases.list[i].nodes) \ Ids(nodes) # {}
  /\ Len(pre.history.nodes) > 1

\* handleUndo, or handleRedo, ran in this step
UndoRan == ops' = ops + 1 /\ lastOp' \in {"undo", "undoNoOp"}

RedoRan == ops' = ops + 1 /\ lastOp' \in {"redo", "undoRedo", "redoNoOp"}

\* the step left the store, the history, the undo flag and the timeouts alone
NothingReplayed ==
  UNCHANGED <<nodes, edges, history, isUndoing, undoTimers, captureTimer>>

\* C37: the two snapshot lists of the history have one length, at least 1,
\* and currentIndex lies between 0 and that length minus 1; handleUndo at
\* index 0 and handleRedo at the last index change nothing
HistoryShape ==
  /\ [](/\ Len(history.nodes) = Len(history.edges)
        /\ Len(history.nodes) >= 1
        /\ history.currentIndex \in 0..(Len(history.nodes) - 1))
  /\ [][(UndoRan /\ history.currentIndex = 0) => NothingReplayed]_vars
  /\ [][(RedoRan /\ history.currentIndex = Len(history.nodes) - 1) =>
          NothingReplayed]_vars

\* undo was pressed at index 0 of a history of several snapshots
UndoAtFirstSnapshot ==
  /\ lastOp = "undoNoOp"
  /\ history.currentIndex = 0
  /\ Len(history.nodes) > 1

\* C11: a successful load replaces the store: the continuation after the
\* 100 ms wait leaves exactly the nodes built from the document, the 300 ms
\* and 500 ms timers leave the set of node ids alone, and once the last of
\* them has run with no gesture in between the ids in the store are the ids
\* built from the document
LoadReplacesStore ==
  /\ []((lastOp = "load" /\ load.result = "ok" /\ load.phase = "idle") =>
          Ids(nodes) = Ids(load.newNodes))
  /\ [][/\ (load.phase = "waiting" /\ load'.phase = "fit") =>
             (nodes' = load.newNodes /\ edges' = load.newEdges)
        /\ (load.phase \in {"fit", "layout"} /\ load'.phase # load.phase) =>
             Ids(nodes') = Ids(nodes)]_vars

\* a document of two nodes was loaded into a canvas that had been edited and
\* emptied before, and every deferred callback has run
LoadReplaced ==
  /\ load.result = "ok"
  /\ load.phase = "idle"
  /\ Len(load.newNodes) >= 2
  /\ Ids(nodes) = Ids(load.newNodes)
  /\ Len(history.nodes) > 2
  /\ \E i \in 1..Len(history.nodes) :
        \E j \in 1..Len(history.nodes[i]) : history.nodes[i][j].id \notin Ids(nodes)

\* the step is a handler that takes the node `id` out of a store whose edges
\* have identifiers of their own: the canvas removing a node, or the dialog's
\* cancel rolling a new node back
RemovesNode(id) ==
  /\ ops' = ops + 1
  /\ lastOp' \in {"deleteNode", "modalCancelRollback"}
  /\ id \in Ids(nodes)
  /\ id \notin Ids(nodes')
  /\ \A i, j \in 1..Len(edges) : edges[i].id = edges[j].id => i = j

\* C12: when a node is removed, afterwards the node is absent, every edge
\* whose source or target was that node is absent, and every other node and
\* edge is unchanged
NodeRemovalExact ==
  [][\A id \in Ids(nodes) :
       RemovesNode(id) =>
         /\ nodes' = SelectSeq(nodes, LAMBDA n : n.id # id)
         /\ edges' = SelectSeq(edges, LAMBDA e : e.source # id /\ e.target # id)]_vars

\* the direction d has the largest dot product with (vx, vy), and no
\* direction before it in the order right, left, bottom, top has as large a one
MaxDotFirst(d, vx, vy) ==
  \E i \in 1..4 :
     /\ Directions[i] = d
     /\ \A j \in 1..4 : Dot(Directions[j], vx, vy) <= Dot(d, vx, vy)
     /\ \A j \in 1..(i - 1) : Dot(Directions[j], vx, vy) # Dot(d, vx, vy)

\* C13: a connect between two nodes at different positions with no anchors
\* given makes an edge whose source anchor has the largest dot product with
\* the source-to-target vector and whose target anchor has the largest dot
\* product with the negated vector, the first of right, left, bottom, top
\* winning ties; from a node at (0,0) to a node at (300,0) the anchors are
\* right and left
AutomaticAnchors ==
  [][\A s \in Ids(nodes), t \in Ids(nodes) :
       LET a == FindNode(nodes, s)[1]
           b == FindNode(nodes, t)[1]
           e == edges'[Len(edges')]
       IN  (/\ onConnect(s, t, NoHandle, NoHandle)
            /\ Len(edges') = Len(edges) + 1
            /\ (a.x # b.x \/ a.y # b.y)) =>
              /\ MaxDotFirst(e.sourceHandle, b.x - a.x, b.y - a.y)
              /\ MaxDotFirst(e.targetHandle, a.x - b.x, a.y - b.y)
              /\ (a.x = 0 /\ a.y = 0 /\ b.x = 300 /\ b.y = 0) =>
                    (e.sourceHandle = "right" /\ e.targetHandle = "left")]_vars

\* a connect with no anchors has joined a node at (0,0) to a node at (300,0)
AnchorsChosen ==
  /\ lastOp = "connect"
  /\ Len(edges) > 0
  /\ LET e == edges[Len(edges)]
     IN  /\ e.sourceHandle = "right"
         /\ e.targetHandle = "left"
         /\ \E i, j \in 1..Len(nodes) :
               /\ nodes[i].id = e.source /\ nodes[i].x = 0 /\ nodes[i].y = 0
               /\ nodes[j].id = e.target /\ nodes[j].x = 300 /\ nodes[j].y = 0

\* C14: in a gesture during which the connect handler fired, whether it
\* added an edge or rejected a duplicate, connect-end adds no node and no edge
ConnectExcludesCreate ==
  [][\A hp \in BOOLEAN, tp \in BOOLEAN :
       (lastOp \in {"connect", "connectExisting"} /\ onConnectEnd(hp, tp)) =>
          (nodes' = nodes /\ edges' = edges)]_vars

\* a gesture in which the connect handler fired has ended, the mouse over
\* the pane or not, and a second node could still have been made
ConnectSuppressedCreate ==
  /\ lastOp = "connectEndAfterConnect"
  /\ Len(nodes) < MaxNodes
  /\ Len(selectedNode) > 0
  /\ ~msUsed

\* the place on the side `h` of a node at (x, y), at the fixed offset: one and
\* a half node widths sideways, two node heights up or down
SideOf(x, y, h) ==
  CASE h = "right" -> Pos(x + (3 * NODE_WIDTH) \div 2, y)
    [] h = "left" -> Pos(x - (3 * NODE_WIDTH) \div 2, y)
    [] h = "top" -> Pos(x, y - 2 * NODE_HEIGHT)
    [] h = "bottom" -> Pos(x, y + 2 * NODE_HEIGHT)

\* top <-> bottom, left <-> right
Opposite(h, g) ==
  {h, g} \in {{"top", "bottom"}, {"left", "right"}}

ExportIsFinite ==
  lastOp = "save" => mindMapData(nodes, edges) # Circular

\* the ids of the top-level children of the one theme of a document
RootIdsOf(doc) ==
  LET roots == doc.mindMaps.items[1].children.items
  IN  [i \in 1..Len(roots) |-> roots[i].id]

\* the ids of the nodes that are the target of no edge, in store order
Untargeted(ns, es) ==
  LET free == SelectSeq(ns, LAMBDA n : \A i \in 1..Len(es) : es[i].target # n.id)
  IN  [i \in 1..Len(free) |-> free[i].id]

\* the document a save or a Markdown export has just built from the store
Exported ==
  IF lastOp = "save" THEN mindMapData(nodes, edges)
  ELSE getMindMapData(nodes, edges)

\* C18: a document exported from the store has exactly one theme, and the
\* top-level children of the theme are the nodes that are the target of no
\* edge, each once, in store order
ExportRoots ==
  (lastOp \in {"save", "exportMarkdown"} /\ Exported # Circular) =>
     /\ Len(Exported.mindMaps.items) = 1
     /\ RootIdsOf(Exported) = Untargeted(nodes, edges)

\* the edges of the store that leave the node `id` for a node of the store,
\* in store order
EdgesFrom(id) ==
  SelectSeq(edges, LAMBDA e : e.source = id /\ e.target \in Ids(nodes))

\* below the exported node t, every child carries the label of the edge of
\* the store it was reached by
RECURSIVE LabelsFollowEdges(_, _)
LabelsFollowEdges(t, d) ==
  \/ d = 0
  \/ LET kids == t.children.items
         own == EdgesFrom(t.id)
     IN  /\ Len(kids) = Len(own)
         /\ \A k \in 1..Len(kids) :
               /\ kids[k].id = own[k].target
               /\ kids[k].edgeLabel = own[k].label
               /\ LabelsFollowEdges(kids[k], d - 1)

RECURSIVE SeqSum(_)
SeqSum(q) == IF q = <<>> THEN 0 ELSE Head(q) + SeqSum(Tail(q))

\* the targets of the edges that leave a node of S
Successors(S) ==
  {edges[i].target : i \in {j \in 1..Len(edges) : edges[j].source \in S}}

\* what is reached from S along one to k edges
RECURSIVE Descendants(_, _)
Descendants(S, k) ==
  IF k = 0 THEN {}
  ELSE Successors(S) \cup Descendants(Successors(S), k - 1)

\* no node of the store is reached from itself
Acyclic == \A id \in Ids(nodes) : id \notin Descendants({id}, Len(nodes))

\* the subtrees of the exported tree t whose top is a copy of the node `id`
RECURSIVE CopiesIn(_, _, _)
CopiesIn(t, id, d) ==
  IF d = 0 THEN {}
  ELSE (IF t.id = id THEN {t} ELSE {})
       \cup UNION {CopiesIn(t.children.items[k], id, d - 1) :
                     k \in 1..Len(t.children.items)}

\* how many copies of the node `id` the exported tree t holds
RECURSIVE Occurrences(_, _, _)
Occurrences(t, id, d) ==
  IF d = 0 THEN 0
  ELSE (IF t.id = id THEN 1 ELSE 0)
       + SeqSum([k \in 1..Len(t.children.items) |->
                   Occurrences(t.children.items[k], id, d - 1)])

\* the top-level nodes of the document a save builds from the store
SavedRoots == mindMapData(nodes, edges).mindMaps.items[1].children.items

OccurrencesOf(id) ==
  SeqSum([r \in 1..Len(SavedRoots) |-> Occurrences(SavedRoots[r], id, Len(nodes) + 1)])

CopiesOf(id) ==
  UNION {CopiesIn(SavedRoots[r], id, Len(nodes) + 1) : r \in 1..Len(SavedRoots)}

\* C20: in the document saved from an acyclic graph, a node with incoming
\* edges appears once per incoming edge under every copy of the parent the
\* edge comes from, and every copy of a node has, in edge order, a child for
\* each edge that leaves the node
MultiParentDuplicated ==
  (lastOp = "save" /\ Acyclic) =>
     /\ mindMapData(nodes, edges) # Circular
     /\ \A id \in Ids(nodes) :
          LET incoming == SelectSeq(edges, LAMBDA e : e.target = id
                                                     /\ e.source \in Ids(nodes))
          IN  /\ Len(incoming) > 0 =>
                   OccurrencesOf(id) =
                     SeqSum([k \in 1..Len(incoming) |-> OccurrencesOf(incoming[k].source)])
              /\ \A c \in CopiesOf(id) :
                   [k \in 1..Len(c.children.items) |-> c.children.items[k].id]
                     = [k \in 1..Len(EdgesFrom(id)) |-> EdgesFrom(id)[k].target]

\* a node with two parents was saved: it is in the document twice
SavedUnderBothParents ==
  /\ lastOp = "save"
  /\ Acyclic
  /\ \E i, j \in 1..Len(edges) :
        /\ edges[i].target = edges[j].target
        /\ edges[i].source # edges[j].source
        /\ OccurrencesOf(edges[i].target) = 2

====
